---- MODULE Spec2Model ----
(***************************************************************************)
(* Data-Lens: the HTML extractor (scraper/html_scraper.py), the JSON       *)
(* normalizer (scraper/api_hunter.py) and the scrape panel that drives     *)
(* them (ui/scrape_panel.py).                                              *)
(*                                                                         *)
(* Python strings are sequences of one-character strings, so that          *)
(* stripping, splitting, lower-casing and substring search are computed.   *)
(* A Python dict is a sequence of [k, v] pairs in insertion order.  A cell *)
(* value of a DataFrame is a tagged value: a string, an integer or NaN.    *)
(***************************************************************************)
EXTENDS Integers, Sequences, FiniteSets, TLC

VARIABLES
    html,        \* the page handed to HTMLScraper.scrape: nodes in document order
    config,      \* the Configuration dictionary
    pc,          \* position of the current call
    all_data,    \* scrape: the list of records before the DataFrame is built
    all_src,     \* ghost: for each record of all_data, the node it came from
    df,          \* the DataFrame under construction / handed to apply_filters
    result,      \* what the call returned or raised
    response,    \* what requests.get(url) meets: the HTTP exchange and its body
    panel,       \* ScrapePanel: current_df, its export buttons, the dialog it showed
    thread,      \* the ScrapeThread: where run is, its html_content, its signals
    scraper,     \* HTMLScraper objects (self.soup) and the scrape calls running on them
    recipe       \* RecipeManager: the recipe file and what load_recipe returned

vars == <<html, config, pc, all_data, all_src, df, result, response, panel, thread,
          scraper, recipe>>

----------------------------------------------------------------------------
(* Strings *)

UpperChars == <<"A","B","C","D","E","F","G","H","I","J","K","L","M",
                "N","O","P","Q","R","S","T","U","V","W","X","Y","Z">>
LowerChars == <<"a","b","c","d","e","f","g","h","i","j","k","l","m",
                "n","o","p","q","r","s","t","u","v","w","x","y","z">>
DigitChars == <<"0","1","2","3","4","5","6","7","8","9">>

\* str.lower() of one character
LowerChar(c) ==
    IF \E i \in DOMAIN UpperChars : UpperChars[i] = c
    THEN LowerChars[CHOOSE i \in DOMAIN UpperChars : UpperChars[i] = c]
    ELSE c

\* str.lower()
Lower(s) == [i \in DOMAIN s |-> LowerChar(s[i])]

\* str.upper() of one character
UpperChar(c) ==
    IF \E i \in DOMAIN LowerChars : LowerChars[i] = c
    THEN UpperChars[CHOOSE i \in DOMAIN LowerChars : LowerChars[i] = c]
    ELSE c

\* str.upper()
Upper(s) == [i \in DOMAIN s |-> UpperChar(s[i])]

IsSpace(c) == c = " "

RECURSIVE LStrip(_)
LStrip(s) == IF s # <<>> /\ IsSpace(Head(s)) THEN LStrip(Tail(s)) ELSE s

RECURSIVE RStrip(_)
RStrip(s) ==
    IF s # <<>> /\ IsSpace(s[Len(s)]) THEN RStrip(SubSeq(s, 1, Len(s) - 1)) ELSE s

\* str.strip()
Strip(s) == RStrip(LStrip(s))

\* needle in hay
Contains(hay, needle) ==
    \E i \in 0..(Len(hay) - Len(needle)) : SubSeq(hay, i + 1, i + Len(needle)) = needle

StartsWith(hay, needle) ==
    Len(needle) <= Len(hay) /\ SubSeq(hay, 1, Len(needle)) = needle

\* str.split(sep) for a one-character separator: always at least one segment
RECURSIVE SplitAcc(_, _, _)
SplitAcc(s, sep, cur) ==
    IF s = <<>> THEN <<cur>>
    ELSE IF Head(s) = sep THEN <<cur>> \o SplitAcc(Tail(s), sep, <<>>)
    ELSE SplitAcc(Tail(s), sep, Append(cur, Head(s)))

Split(s, sep) == SplitAcc(s, sep, <<>>)

\* str(n) for n >= 0
RECURSIVE IntToStr(_)
IntToStr(n) ==
    IF n < 10 THEN <<DigitChars[n + 1]>>
    ELSE IntToStr(n \div 10) \o <<DigitChars[(n % 10) + 1]>>

\* a string of n copies of c
Repeat(c, n) == [i \in 1..n |-> c]

----------------------------------------------------------------------------
(* Column names and tag values the code writes *)

K_type        == <<"t","y","p","e">>
K_table_index == <<"t","a","b","l","e","_","i","n","d","e","x">>
K_row_index   == <<"r","o","w","_","i","n","d","e","x">>
K_index       == <<"i","n","d","e","x">>
K_content     == <<"c","o","n","t","e","n","t">>
K_tag         == <<"t","a","g">>
K_text        == <<"t","e","x","t">>
K_url         == <<"u","r","l">>
K_title       == <<"t","i","t","l","e">>
K_src         == <<"s","r","c">>
K_alt         == <<"a","l","t">>
K_value       == <<"v","a","l","u","e">>
K_column_     == <<"c","o","l","u","m","n","_">>

T_table == <<"t","a","b","l","e">>
T_text  == <<"t","e","x","t">>
T_link  == <<"l","i","n","k">>
T_image == <<"i","m","a","g","e">>

\* tag names as strings of characters (the value of the `tag` column)
TagName(tag) ==
    CASE tag = "p"   -> <<"p">>
      [] tag = "h1"  -> <<"h","1">>
      [] tag = "h2"  -> <<"h","2">>
      [] tag = "h3"  -> <<"h","3">>
      [] tag = "h4"  -> <<"h","4">>
      [] tag = "h5"  -> <<"h","5">>
      [] tag = "h6"  -> <<"h","6">>
      [] tag = "div" -> <<"d","i","v">>

----------------------------------------------------------------------------
(* Values and dicts *)

V_Str(s) == [t |-> "str", s |-> s, n |-> 0]
V_Int(n) == [t |-> "int", s |-> <<>>, n |-> n]
V_NaN    == [t |-> "nan", s |-> <<>>, n |-> 0]
\* a list or a dict held in a cell, carried by its str()
V_Obj(s) == [t |-> "obj", s |-> s, n |-> 0]

DictKeys(d) == [i \in DOMAIN d |-> d[i].k]

DictHas(d, k) == \E i \in DOMAIN d : d[i].k = k

DictGet(d, k) == d[CHOOSE i \in DOMAIN d : d[i].k = k].v

\* d[k] = v: an existing key keeps its position, a new key goes last
DictSet(d, k, v) ==
    IF DictHas(d, k)
    THEN [i \in DOMAIN d |-> IF d[i].k = k THEN [k |-> k, v |-> v] ELSE d[i]]
    ELSE Append(d, [k |-> k, v |-> v])

----------------------------------------------------------------------------
(* The parsed document (BeautifulSoup): nodes in document order.           *)
(* A node: tag, its text, its attributes and, for a <table>, its <tr>      *)
(* rows in document order; thead = -1 when the table has no <thead>,       *)
(* otherwise the number of leading rows that lie inside the <thead>.       *)
(* A row is the sequence of its <td>/<th> cells, a cell [tag, text].       *)

NoAttrs == [names |-> {}, href |-> <<>>, src |-> <<>>, alt |-> <<>>, title |-> <<>>]

\* an element at the top of the body.  `parent` is the place in the page of
\* the element that encloses it, 0 for none; `text` is all the text inside
\* the element, that of its descendants included (what get_text walks).
Elem(tag, text) ==
    [tag |-> tag, text |-> text, attrs |-> NoAttrs, thead |-> -1, rows |-> <<>>, parent |-> 0]

Table(thead, rows) ==
    [tag |-> "table", text |-> <<>>, attrs |-> NoAttrs, thead |-> thead, rows |-> rows,
     parent |-> 0]

Cell(tag, text) == [tag |-> tag, text |-> text]

\* tag.get_text(strip=True)
get_text(node) == Strip(node.text)

\* soup.find_all(tag): positions of the matching nodes, in document order
RECURSIVE FindAllFrom(_, _, _)
FindAllFrom(doc, tag, i) ==
    IF i > Len(doc) THEN <<>>
    ELSE (IF doc[i].tag = tag THEN <<i>> ELSE <<>>) \o FindAllFrom(doc, tag, i + 1)

find_all(doc, tag) == FindAllFrom(doc, tag, 1)

\* soup.find_all(tag, attr=True): matching nodes that carry the attribute
RECURSIVE FindAllWithFrom(_, _, _, _)
FindAllWithFrom(doc, tag, attr, i) ==
    IF i > Len(doc) THEN <<>>
    ELSE (IF doc[i].tag = tag /\ attr \in doc[i].attrs.names THEN <<i>> ELSE <<>>)
         \o FindAllWithFrom(doc, tag, attr, i + 1)

find_all_with(doc, tag, attr) == FindAllWithFrom(doc, tag, attr, 1)

\* tag.get(attr, ''): the attribute's value, '' when the tag has none
attr_get(node, attr) == IF attr \in node.attrs.names THEN node.attrs[attr] ELSE <<>>

\* the records of a list of [src, rec] pairs, and their sources
Recs(tagged) == [i \in DOMAIN tagged |-> tagged[i].rec]
Srcs(tagged) == [i \in DOMAIN tagged |-> tagged[i].src]

----------------------------------------------------------------------------
(* HTMLScraper.extract_tables *)

\* the cells of the first k rows, in document order
RECURSIVE CellsOfRows(_, _)
CellsOfRows(rows, k) ==
    IF k = 0 THEN <<>> ELSE CellsOfRows(rows, k - 1) \o rows[k]

CellTexts(cells) == [i \in DOMAIN cells |-> get_text(cells[i])]

IsTh(c) == c.tag = "th"

\* TableHeaders without the <thead> branch: the first row's <th> cells only
TableHeaders_NoThead(table) ==
    IF table.rows # <<>>
    THEN CellTexts(SelectSeq(table.rows[1], IsTh))
    ELSE <<>>

\* the headers of one table: the cells of its <thead>, else the <th> cells of
\* its first row, else none
TableHeaders(table) ==
    IF table.thead >= 0
    THEN CellTexts(CellsOfRows(table.rows, table.thead))
    ELSE IF table.rows # <<>>
         THEN LET potential_headers == SelectSeq(table.rows[1], IsTh)
              IN  IF potential_headers # <<>> THEN CellTexts(potential_headers) ELSE <<>>
         ELSE <<>>

\* the column name of the cell at position cell_idx (0-based)
ColName(headers, cell_idx) ==
    IF headers # <<>> /\ cell_idx < Len(headers)
    THEN headers[cell_idx + 1]
    ELSE K_column_ \o IntToStr(cell_idx)

\* row_data after the first k cells of the row have been stored
RECURSIVE RowData(_, _, _, _, _)
RowData(table_idx, row_idx, cells, headers, k) ==
    IF k = 0
    THEN << [k |-> K_type,        v |-> V_Str(T_table)],
            [k |-> K_table_index, v |-> V_Int(table_idx)],
            [k |-> K_row_index,   v |-> V_Int(row_idx)] >>
    ELSE DictSet(RowData(table_idx, row_idx, cells, headers, k - 1),
                 ColName(headers, k - 1), V_Str(get_text(cells[k])))

\* the records of the rows r.. of one table: a row without cells gives none
RECURSIVE TableRowsFrom(_, _, _, _, _)
TableRowsFrom(table, table_idx, src, headers, r) ==
    IF r > Len(table.rows) THEN <<>>
    ELSE LET cells == table.rows[r]
         IN  (IF cells # <<>>
              THEN << [src |-> src,
                       rec |-> RowData(table_idx, r - 1, cells, headers, Len(cells))] >>
              ELSE <<>>)
             \o TableRowsFrom(table, table_idx, src, headers, r + 1)

RECURSIVE ExtractTablesFrom(_, _, _)
ExtractTablesFrom(doc, tables, t) ==
    IF t > Len(tables) THEN <<>>
    ELSE TableRowsFrom(doc[tables[t]], t - 1, tables[t], TableHeaders(doc[tables[t]]), 1)
         \o ExtractTablesFrom(doc, tables, t + 1)

extract_tables(doc) == ExtractTablesFrom(doc, find_all(doc, "table"), 1)

----------------------------------------------------------------------------
(* HTMLScraper.extract_text *)

MinDivLen == 50

HeadingTags == <<"h1", "h2", "h3", "h4", "h5", "h6">>

TextRecord(idx, text, tag) ==
    << [k |-> K_type,    v |-> V_Str(T_text)],
       [k |-> K_index,   v |-> V_Int(idx)],
       [k |-> K_content, v |-> V_Str(text)],
       [k |-> K_tag,     v |-> V_Str(TagName(tag))] >>

\* one loop over soup.find_all(tag): a record for each element whose stripped
\* text is non-empty and longer than minlen; idx counts every element found
RECURSIVE TextLoopFrom(_, _, _, _, _)
TextLoopFrom(doc, found, tag, minlen, i) ==
    IF i > Len(found) THEN <<>>
    ELSE LET text == get_text(doc[found[i]])
         IN  (IF text # <<>> /\ Len(text) > minlen
              THEN << [src |-> found[i], rec |-> TextRecord(i - 1, text, tag)] >>
              ELSE <<>>)
             \o TextLoopFrom(doc, found, tag, minlen, i + 1)

\* the loop with idx counting the records it appends, not the elements found
TextLoop_CountEmitted(doc, tag, minlen) ==
    LET recs == TextLoopFrom(doc, find_all(doc, tag), tag, minlen, 1)
    IN  [j \in DOMAIN recs |->
            [src |-> recs[j].src, rec |-> TextRecord(j - 1, get_text(doc[recs[j].src]), tag)]]

TextLoop(doc, tag, minlen) == TextLoopFrom(doc, find_all(doc, tag), tag, minlen, 1)

RECURSIVE HeadingsFrom(_, _)
HeadingsFrom(doc, h) ==
    IF h > Len(HeadingTags) THEN <<>>
    ELSE TextLoop(doc, HeadingTags[h], 0) \o HeadingsFrom(doc, h + 1)

\* extract_text with the <div> loop run before the paragraph and heading loops
extract_text_DivsFirst(doc) ==
    TextLoop(doc, "div", MinDivLen) \o TextLoop(doc, "p", 0) \o HeadingsFrom(doc, 1)

\* extract_text with len(text) >= 50 for the <div> elements
extract_text_DivAtLeast(doc) ==
    TextLoop(doc, "p", 0) \o HeadingsFrom(doc, 1) \o TextLoop(doc, "div", MinDivLen - 1)

extract_text(doc) ==
    TextLoop(doc, "p", 0) \o HeadingsFrom(doc, 1) \o TextLoop(doc, "div", MinDivLen)

----------------------------------------------------------------------------
(* HTMLScraper.extract_links, HTMLScraper.extract_images *)

LinkRecord(idx, node) ==
    << [k |-> K_type,  v |-> V_Str(T_link)],
       [k |-> K_index, v |-> V_Int(idx)],
       [k |-> K_text,  v |-> V_Str(get_text(node))],
       [k |-> K_url,   v |-> V_Str(attr_get(node, "href"))],
       [k |-> K_title, v |-> V_Str(attr_get(node, "title"))] >>

\* extract_links over soup.find_all('a'), without href=True
extract_links_AllAnchors(doc) ==
    LET links == find_all(doc, "a")
    IN  [i \in DOMAIN links |-> [src |-> links[i], rec |-> LinkRecord(i - 1, doc[links[i]])]]

extract_links(doc) ==
    LET links == find_all_with(doc, "a", "href")
    IN  [i \in DOMAIN links |-> [src |-> links[i], rec |-> LinkRecord(i - 1, doc[links[i]])]]

ImageRecord(idx, node) ==
    << [k |-> K_type,  v |-> V_Str(T_image)],
       [k |-> K_index, v |-> V_Int(idx)],
       [k |-> K_src,   v |-> V_Str(attr_get(node, "src"))],
       [k |-> K_alt,   v |-> V_Str(attr_get(node, "alt"))],
       [k |-> K_title, v |-> V_Str(attr_get(node, "title"))] >>

extract_images(doc) ==
    LET images == find_all_with(doc, "img", "src")
    IN  [i \in DOMAIN images |-> [src |-> images[i], rec |-> ImageRecord(i - 1, doc[images[i]])]]

----------------------------------------------------------------------------
(* pandas: DataFrame(list of dicts), boolean indexing, drop_duplicates *)

\* the union of the records' keys, in order of first appearance
RECURSIVE ColumnsOf(_, _)
ColumnsOf(records, n) ==
    IF n = 0 THEN <<>>
    ELSE LET before == ColumnsOf(records, n - 1)
             keys   == DictKeys(records[n])
             IsNew(k) == \A j \in DOMAIN before : before[j] # k
         IN  before \o SelectSeq(keys, IsNew)

\* the dtype pandas infers for a column of values
InferDtype(values) ==
    IF \E i \in DOMAIN values : values[i].t \in {"str", "obj"} THEN "object"
    ELSE IF \E i \in DOMAIN values : values[i].t = "nan" THEN "float64"
    ELSE "int64"

\* pd.DataFrame()
EmptyDataFrame == [columns |-> <<>>, dtypes |-> <<>>, index |-> <<>>, data |-> <<>>]

\* pd.DataFrame(records): one row per record, a missing key gives NaN, the
\* index is RangeIndex(len(records))
DataFrame(records) ==
    LET columns == ColumnsOf(records, Len(records))
        Row(rec) == [c \in DOMAIN columns |->
                        IF DictHas(rec, columns[c]) THEN DictGet(rec, columns[c]) ELSE V_NaN]
        data    == [i \in DOMAIN records |-> Row(records[i])]
    IN  [columns |-> columns,
         dtypes  |-> [c \in DOMAIN columns |-> InferDtype([i \in DOMAIN data |-> data[i][c]])],
         index   |-> [i \in DOMAIN records |-> i - 1],
         data    |-> data]

\* df.empty
IsEmpty(d) == d.columns = <<>> \/ d.data = <<>>

\* the positions i with keep[i], in order
RECURSIVE PositionsFrom(_, _)
PositionsFrom(keep, i) ==
    IF i > Len(keep) THEN <<>>
    ELSE (IF keep[i] THEN <<i>> ELSE <<>>) \o PositionsFrom(keep, i + 1)

\* the rows at the given positions, with their index labels
TakeRows(d, pos) ==
    [d EXCEPT !.index = [i \in DOMAIN pos |-> d.index[pos[i]]],
              !.data  = [i \in DOMAIN pos |-> d.data[pos[i]]]]

Returned(d) == [exc |-> "none", df |-> d, warned |-> FALSE]
Raised(e)   == [exc |-> e, df |-> EmptyDataFrame, warned |-> FALSE]

\* mask |= series, where mask is labelled 0..len-1 and series is labelled by
\* the frame's index: the result is aligned on the labels and reindexed like mask
MaskIor(mask, d, series) ==
    [i \in DOMAIN mask |->
        mask[i] \/ \E j \in DOMAIN series : d.index[j] = i - 1 /\ series[j]]

\* df[mask] for a boolean Series labelled 0..len-1: pandas looks every label
\* of the frame up in the mask and raises IndexingError when one is missing
GetItemMask(d, mask) ==
    IF \E j \in DOMAIN d.index : d.index[j] + 1 \notin DOMAIN mask
    THEN Raised("IndexingError")
    ELSE LET keep == [j \in DOMAIN d.data |-> mask[d.index[j] + 1]]
         IN  Returned(TakeRows(d, PositionsFrom(keep, 1)))

\* Series.astype(str) of one value: NaN becomes the string 'nan'
AsStr(v) ==
    CASE v.t = "str" -> v.s
      [] v.t = "obj" -> v.s
      [] v.t = "int" -> IntToStr(v.n)
      [] v.t = "nan" -> <<"n","a","n">>

\* drop_duplicates(keep='last'): the last of the rows that agree on every column
drop_duplicates_KeepLast(d) ==
    LET keep == [i \in DOMAIN d.data |->
                    \A j \in (i + 1)..Len(d.data) : d.data[j] # d.data[i]]
    IN  TakeRows(d, PositionsFrom(keep, 1))

\* df.drop_duplicates(): the first of the rows that agree on every column
drop_duplicates(d) ==
    LET keep == [i \in DOMAIN d.data |-> \A j \in 1..(i - 1) : d.data[j] # d.data[i]]
    IN  TakeRows(d, PositionsFrom(keep, 1))

----------------------------------------------------------------------------
(* The Configuration: config.get(key, default).  `absent` holds the keys   *)
(* the dictionary does not have.                                           *)

ConfigGet(cfg, key, default) == IF key \in cfg.absent THEN default ELSE cfg[key]

----------------------------------------------------------------------------
(* Regular expressions (re), for patterns made of letters, an optional     *)
(* leading ^ and parentheses.                                              *)

\* depth of open parentheses after the first k characters; -1 once a ')' closes nothing
RECURSIVE ParenDepth(_, _)
ParenDepth(p, k) ==
    IF k = 0 THEN 0
    ELSE LET d == ParenDepth(p, k - 1)
         IN  IF d < 0 THEN -1
             ELSE IF p[k] = "(" THEN d + 1
             ELSE IF p[k] = ")" THEN d - 1
             ELSE d

\* re.compile(p) raises re.error
RegexError(p) == ParenDepth(p, Len(p)) # 0

IsParen(c) == c \in {"(", ")"}
NotParen(c) == ~IsParen(c)

\* re.compile(p, re.IGNORECASE).search(s) is not None, for a pattern that compiles
RegexSearch(p, s) ==
    LET anchored == p # <<>> /\ Head(p) = "^"
        body     == SelectSeq(IF anchored THEN Tail(p) ELSE p, NotParen)
    IN  IF anchored THEN StartsWith(Lower(s), Lower(body))
        ELSE Contains(Lower(s), Lower(body))

----------------------------------------------------------------------------
(* HTMLScraper.apply_filters *)

\* df[col].astype(str).str.contains(kw, case=False, na=False, regex=False)
KeywordSeries(d, c, kw) ==
    [j \in DOMAIN d.data |-> Contains(Upper(AsStr(d.data[j][c])), Upper(kw))]

\* df[col].astype(str).str.contains(pattern, case=False, na=False, regex=True)
RegexSeries(d, c, pattern) ==
    [j \in DOMAIN d.data |-> RegexSearch(pattern, AsStr(d.data[j][c]))]

\* mask after `mask |= ...` for the columns 1..c of one keyword
RECURSIVE KeywordColumns(_, _, _, _)
KeywordColumns(mask, d, kw, c) ==
    IF c = 0 THEN mask
    ELSE LET before == KeywordColumns(mask, d, kw, c - 1)
         IN  IF d.dtypes[c] = "object"
             THEN MaskIor(before, d, KeywordSeries(d, c, kw))
             ELSE before

\* mask after the keywords 1..k
RECURSIVE KeywordMask(_, _, _)
KeywordMask(d, keywords, k) ==
    IF k = 0 THEN [i \in DOMAIN d.data |-> FALSE]
    ELSE LET before == KeywordMask(d, keywords, k - 1)
         IN  IF keywords[k] # <<>>
             THEN KeywordColumns(before, d, keywords[k], Len(d.columns))
             ELSE before

\* KeywordStep without the strip() of line 198
KeywordStep_NoStrip(d, cfg) ==
    LET keyword == ConfigGet(cfg, "keyword_filter", <<>>)
    IN  IF keyword # <<>>
        THEN LET parts    == Split(keyword, ",")
                 keywords == [i \in DOMAIN parts |-> Strip(parts[i])]
             IN  GetItemMask(d, KeywordMask(d, keywords, Len(keywords)))
        ELSE Returned(d)

\* the keyword filter: lines 198-214
KeywordStep(d, cfg) ==
    LET keyword == Strip(ConfigGet(cfg, "keyword_filter", <<>>))
    IN  IF keyword # <<>>
        THEN LET parts    == Split(keyword, ",")
                 keywords == [i \in DOMAIN parts |-> Strip(parts[i])]
             IN  GetItemMask(d, KeywordMask(d, keywords, Len(keywords)))
        ELSE Returned(d)

RECURSIVE RegexMask(_, _, _)
RegexMask(d, pattern, c) ==
    IF c = 0 THEN [i \in DOMAIN d.data |-> FALSE]
    ELSE LET before == RegexMask(d, pattern, c - 1)
         IN  IF d.dtypes[c] = "object"
             THEN MaskIor(before, d, RegexSeries(d, c, pattern))
             ELSE before

\* some column is searched, so that the pattern is compiled
HasObjectColumn(d) == \E c \in DOMAIN d.dtypes : d.dtypes[c] = "object"

\* RegexStep without the except clause: re.error leaves apply_filters
RegexStep_NoExcept(d, cfg) ==
    LET regex_pattern == Strip(ConfigGet(cfg, "regex_filter", <<>>))
    IN  IF regex_pattern # <<>>
        THEN IF HasObjectColumn(d) /\ RegexError(regex_pattern)
             THEN Raised("re.error")
             ELSE GetItemMask(d, RegexMask(d, regex_pattern, Len(d.columns)))
        ELSE Returned(d)

\* the regex filter: lines 217-231
RegexStep(d, cfg) ==
    LET regex_pattern == Strip(ConfigGet(cfg, "regex_filter", <<>>))
    IN  IF regex_pattern # <<>>
        THEN IF HasObjectColumn(d) /\ RegexError(regex_pattern)
             THEN [exc |-> "none", df |-> d, warned |-> TRUE]
             ELSE GetItemMask(d, RegexMask(d, regex_pattern, Len(d.columns)))
        ELSE Returned(d)

apply_filters(d, cfg) ==
    IF IsEmpty(d) THEN Returned(d)
    ELSE LET kw == KeywordStep(d, cfg)
         IN  IF kw.exc # "none" THEN kw ELSE RegexStep(kw.df, cfg)

----------------------------------------------------------------------------
(* HTMLScraper.scrape *)

\* Extracted with config.get('tables', True): tables are extracted unless switched off
Extracted_TablesDefaultTrue(doc, cfg) ==
    (IF ConfigGet(cfg, "tables", TRUE) THEN extract_tables(doc) ELSE <<>>)
    \o (IF ConfigGet(cfg, "text", FALSE) THEN extract_text(doc) ELSE <<>>)
    \o (IF ConfigGet(cfg, "links", FALSE) THEN extract_links(doc) ELSE <<>>)
    \o (IF ConfigGet(cfg, "images", FALSE) THEN extract_images(doc) ELSE <<>>)

\* all_data with the node of each record: lines 35-48
Extracted(doc, cfg) ==
    (IF ConfigGet(cfg, "tables", FALSE) THEN extract_tables(doc) ELSE <<>>)
    \o (IF ConfigGet(cfg, "text", FALSE) THEN extract_text(doc) ELSE <<>>)
    \o (IF ConfigGet(cfg, "links", FALSE) THEN extract_links(doc) ELSE <<>>)
    \o (IF ConfigGet(cfg, "images", FALSE) THEN extract_images(doc) ELSE <<>>)

\* lines 56-63: the filters, then the duplicate removal the Configuration asks for
filter_stage(d, cfg) ==
    LET filtered == apply_filters(d, cfg)
    IN  IF filtered.exc # "none" THEN filtered
        ELSE IF ConfigGet(cfg, "remove_duplicates", FALSE)
             THEN [filtered EXCEPT !.df = drop_duplicates(filtered.df)]
             ELSE filtered

\* lines 50-63, from all_data on
scrape_from(records, cfg) ==
    IF records = <<>> THEN Returned(EmptyDataFrame)
    ELSE filter_stage(DataFrame(records), cfg)

scrape(doc, cfg) == scrape_from(Recs(Extracted(doc, cfg)), cfg)

----------------------------------------------------------------------------
(* HTMLScraper objects and the scrape calls that run on them.  self.soup   *)
(* is an attribute of the object; a call writes it at line 33 and each     *)
(* sub-extraction reads it when it calls self.soup.find_all.  The steps of *)
(* a call are the statements between two reads or writes of self.soup.     *)

\* no object, no call
NoScraper == [soup |-> <<>>, calls |-> <<>>]

\* scrape(html_content, config) called on the object `self`, about to run line 33
NewCall(self, html_content, cfg) ==
    [self |-> self, html |-> html_content, config |-> cfg, at |-> "parse", h |-> 1,
     all_data |-> <<>>, result |-> [exc |-> "pending", df |-> EmptyDataFrame, warned |-> FALSE]]

\* line 33: self.soup = BeautifulSoup(html_content, "lxml"); line 35
ParseStep(s, c) ==
    [s EXCEPT !.soup[s.calls[c].self] = s.calls[c].html, !.calls[c].at = "tables"]

\* lines 38-39: extract_tables reads self.soup at line 68
TablesStep(s, c) ==
    LET call == s.calls[c]
    IN  [s EXCEPT !.calls[c].all_data =
                      IF ConfigGet(call.config, "tables", FALSE)
                      THEN @ \o extract_tables(s.soup[call.self]) ELSE @,
                  !.calls[c].at =
                      IF ConfigGet(call.config, "text", FALSE) THEN "paragraphs" ELSE "links"]

\* lines 113-122: self.soup.find_all('p') and its loop
ParagraphsStep(s, c) ==
    [s EXCEPT !.calls[c].all_data = @ \o TextLoop(s.soup[s.calls[c].self], "p", 0),
              !.calls[c].at = "headings", !.calls[c].h = 1]

\* lines 125-135: one turn of the loop over the heading tags
HeadingStep(s, c) ==
    LET call == s.calls[c]
    IN  [s EXCEPT !.calls[c].all_data = @ \o TextLoop(s.soup[call.self], HeadingTags[call.h], 0),
                  !.calls[c].h = IF call.h < Len(HeadingTags) THEN @ + 1 ELSE @,
                  !.calls[c].at = IF call.h < Len(HeadingTags) THEN "headings" ELSE "divs"]

\* lines 138-148: self.soup.find_all('div') and its loop
DivsStep(s, c) ==
    [s EXCEPT !.calls[c].all_data = @ \o TextLoop(s.soup[s.calls[c].self], "div", MinDivLen),
              !.calls[c].at = "links"]

\* lines 44-45: extract_links reads self.soup at line 155
LinksStep(s, c) ==
    LET call == s.calls[c]
    IN  [s EXCEPT !.calls[c].all_data =
                      IF ConfigGet(call.config, "links", FALSE)
                      THEN @ \o extract_links(s.soup[call.self]) ELSE @,
                  !.calls[c].at = "images"]

\* lines 47-48: extract_images reads self.soup at line 175
ImagesStep(s, c) ==
    LET call == s.calls[c]
    IN  [s EXCEPT !.calls[c].all_data =
                      IF ConfigGet(call.config, "images", FALSE)
                      THEN @ \o extract_images(s.soup[call.self]) ELSE @,
                  !.calls[c].at = "frame"]

\* lines 50-63: the DataFrame of all_data, the filters, the return
FrameStep(s, c) ==
    [s EXCEPT !.calls[c].result = scrape_from(Recs(s.calls[c].all_data), s.calls[c].config),
              !.calls[c].at = "done"]

----------------------------------------------------------------------------
(* JSON values (response.json()): [t, n, s, items].  t = "int": the number *)
(* n; "str": the string s; "list": the elements items; "dict": the         *)
(* [k, v] pairs items, keys as strings of characters.                      *)

J_Int(n)      == [t |-> "int",  n |-> n, s |-> <<>>, items |-> <<>>]
J_Str(s)      == [t |-> "str",  n |-> 0, s |-> s,    items |-> <<>>]
J_List(items) == [t |-> "list", n |-> 0, s |-> <<>>, items |-> items]
J_Dict(pairs) == [t |-> "dict", n |-> 0, s |-> <<>>, items |-> pairs]

\* ', '.join(parts)
RECURSIVE JoinComma(_, _)
JoinComma(parts, n) ==
    IF n = 0 THEN <<>>
    ELSE IF n = 1 THEN parts[1]
    ELSE JoinComma(parts, n - 1) \o <<",", " ">> \o parts[n]

\* str(v) / repr(v) of a JSON value held in a Python list or dict
RECURSIVE PyRepr(_)
PyRepr(v) ==
    CASE v.t = "int"  -> IntToStr(v.n)
      [] v.t = "str"  -> <<"'">> \o v.s \o <<"'">>
      [] v.t = "list" ->
            <<"[">> \o JoinComma([i \in DOMAIN v.items |-> PyRepr(v.items[i])], Len(v.items))
            \o <<"]">>
      [] v.t = "dict" ->
            <<"{">> \o JoinComma([i \in DOMAIN v.items |->
                                    <<"'">> \o v.items[i].k \o <<"'", ":", " ">>
                                    \o PyRepr(v.items[i].v)], Len(v.items))
            \o <<"}">>

\* the cell a JSON value becomes in a DataFrame
CellOf(v) ==
    CASE v.t = "int" -> V_Int(v.n)
      [] v.t = "str" -> V_Str(v.s)
      [] OTHER       -> V_Obj(PyRepr(v))

----------------------------------------------------------------------------
(* APIHunter.flatten_dict, APIHunter.json_to_dataframe *)

\* dict(items): a later pair of an equal key replaces the value of the earlier
RECURSIVE DictOf(_, _)
DictOf(pairs, n) ==
    IF n = 0 THEN <<>> ELSE DictSet(DictOf(pairs, n - 1), pairs[n].k, pairs[n].v)

RECURSIVE flatten_dict(_, _)
\* the (key, value) items gathered from the pairs 1..n of d
RECURSIVE FlattenItems(_, _, _)
FlattenItems(pairs, parent_key, n) ==
    IF n = 0 THEN <<>>
    ELSE LET k == pairs[n].k
             v == pairs[n].v
             new_key == IF parent_key # <<>> THEN parent_key \o <<"_">> \o k ELSE k
         IN  FlattenItems(pairs, parent_key, n - 1)
             \o (IF v.t = "dict" THEN flatten_dict(v, new_key)
                 ELSE IF v.t = "list" THEN << [k |-> new_key, v |-> V_Str(PyRepr(v))] >>
                 ELSE << [k |-> new_key, v |-> CellOf(v)] >>)

flatten_dict(d, parent_key) ==
    LET items == FlattenItems(d.items, parent_key, Len(d.items))
    IN  DictOf(items, Len(items))

\* EnvelopeKeys with 'data' tried first
EnvelopeKeys_DataFirst ==
    << <<"d","a","t","a">>, <<"r","e","s","u","l","t","s">>, <<"i","t","e","m","s">>,
       <<"l","i","s","t">>, <<"r","e","c","o","r","d","s">> >>

EnvelopeKeys ==
    << <<"r","e","s","u","l","t","s">>, <<"i","t","e","m","s">>, <<"d","a","t","a">>,
       <<"l","i","s","t">>, <<"r","e","c","o","r","d","s">> >>

\* data[key], for a key the dict has
JsonGet(d, key) == d.items[CHOOSE i \in DOMAIN d.items : d.items[i].k = key].v

JsonHas(d, key) == \E i \in DOMAIN d.items : d.items[i].k = key

\* the record of one element of a list of dicts
RecordOf(d) == [i \in DOMAIN d.items |-> [k |-> d.items[i].k, v |-> CellOf(d.items[i].v)]]

\* pd.DataFrame({'value': data})
ValueFrame(items) ==
    [columns |-> <<K_value>>,
     dtypes  |-> << IF items = <<>> THEN "object"
                    ELSE InferDtype([i \in DOMAIN items |-> CellOf(items[i])]) >>,
     index   |-> [i \in DOMAIN items |-> i - 1],
     data    |-> [i \in DOMAIN items |-> << CellOf(items[i]) >>]]

\* the place in EnvelopeKeys of the first key the object has with a list
\* value, 0 when there is none: the loop of lines 142-144
SelectedKey(data) ==
    LET Found(k) == JsonHas(data, EnvelopeKeys[k]) /\ JsonGet(data, EnvelopeKeys[k]).t = "list"
    IN  IF \E k \in DOMAIN EnvelopeKeys : Found(k)
        THEN CHOOSE k \in DOMAIN EnvelopeKeys : Found(k) /\ \A m \in 1..(k - 1) : ~Found(m)
        ELSE 0

\* EnvelopeArg with the selected list wrapped in a list of its own
EnvelopeArg_Wrapped(data) == J_List(<< JsonGet(data, EnvelopeKeys[SelectedKey(data)]) >>)

\* data[key] of line 144: what json_to_dataframe calls itself on
EnvelopeArg(data) == JsonGet(data, EnvelopeKeys[SelectedKey(data)])

\* pd.DataFrame(data) of a list whose first element is a dict reads x.keys()
\* of every element: AttributeError for an element that is not a dict
ListOfDicts(items) ==
    IF \E i \in DOMAIN items : items[i].t # "dict"
    THEN Raised("AttributeError")
    ELSE Returned(DataFrame([i \in DOMAIN items |-> RecordOf(items[i])]))

RECURSIVE json_to_dataframe(_)
json_to_dataframe(data) ==
    IF data.t = "list"
    THEN IF data.items # <<>> /\ data.items[1].t = "dict"
         THEN ListOfDicts(data.items)
         ELSE Returned(ValueFrame(data.items))
    ELSE IF data.t = "dict"
    THEN IF SelectedKey(data) # 0
         THEN json_to_dataframe(EnvelopeArg(data))
         ELSE Returned(DataFrame(<< flatten_dict(data, <<>>) >>))
    ELSE Returned(ValueFrame(<< data >>))

----------------------------------------------------------------------------
(* APIHunter.fetch_api_data.  The exchange requests.get(url) has is the    *)
(* record response: transport "ok" or "failed" (no response at all), the   *)
(* status of the response, whether its body is valid JSON, the value json  *)
(* it decodes to, and the class raises of the exception response.json()    *)
(* raises on a body that is not: requests.exceptions.JSONDecodeError from  *)
(* requests 2.27 on, json.JSONDecodeError or simplejson.JSONDecodeError    *)
(* before; the repository pins no version.                                 *)

FailedToFetch == "Failed to fetch API"
NotValidJson  == "Response is not valid JSON"

\* isinstance(e, requests.RequestException), of what requests.get,
\* raise_for_status and response.json raise
IsRequestException(cls) ==
    cls \in {"requests.exceptions.ConnectionError", "requests.exceptions.HTTPError",
             "requests.exceptions.JSONDecodeError"}

\* isinstance(e, json.JSONDecodeError)
IsJSONDecodeError(cls) ==
    cls \in {"requests.exceptions.JSONDecodeError", "json.JSONDecodeError"}

\* the except clauses of lines 112-120, tried in order
FetchHandlers(cls) ==
    IF IsRequestException(cls) THEN Raised(FailedToFetch)
    ELSE IF IsJSONDecodeError(cls) THEN Raised(NotValidJson)
    ELSE Raised(cls)

\* Response.raise_for_status raises for the statuses 400 to 599
RaisesForStatus(status) == status >= 400 /\ status < 600

fetch_api_data(resp) ==
    IF resp.transport = "failed" THEN FetchHandlers("requests.exceptions.ConnectionError")
    ELSE IF RaisesForStatus(resp.status) THEN FetchHandlers("requests.exceptions.HTTPError")
    ELSE IF ~resp.valid THEN FetchHandlers(resp.raises)
    ELSE LET converted == json_to_dataframe(resp.json)
         IN  IF converted.exc # "none" THEN FetchHandlers(converted.exc) ELSE converted

----------------------------------------------------------------------------
(* ScrapePanel: current_df (has_df: it is not None), the export buttons,   *)
(* the last dialog a handler showed; webview: self.webview is set;         *)
(* btn_scrape: the Start Scraping button is enabled; scrape_thread: the    *)
(* place in `threads` of the thread self.scrape_thread refers to, 0 for    *)
(* None; threads: every ScrapeThread the panel started, with the           *)
(* Configuration it was given and whether it still runs; last: what the    *)
(* last handler did; exported: the Table the last export wrote.            *)

NewPanel ==
    [has_df |-> FALSE, current_df |-> EmptyDataFrame, export_enabled |-> FALSE,
     dialog |-> "none", webview |-> FALSE, btn_scrape |-> TRUE, scrape_thread |-> 0,
     threads |-> <<>>, last |-> "none", exported |-> EmptyDataFrame]

\* ScrapePanel.fetch_api_data, after the call of the APIHunter returned r
PanelAfterFetch(p, r) ==
    IF r.exc # "none" THEN [p EXCEPT !.dialog = "API Error"]
    ELSE IF ~IsEmpty(r.df)
         THEN [p EXCEPT !.has_df = TRUE, !.current_df = r.df, !.export_enabled = TRUE]
         ELSE [p EXCEPT !.dialog = "No Data"]

NoResponse ==
    [transport |-> "none", status |-> 0, valid |-> FALSE, raises |-> "none",
     json |-> J_Int(0)]

----------------------------------------------------------------------------
(* ScrapeThread.  at: where run is ("created", "polling" in the loop of    *)
(* lines 52-54, "waited" between the loop and the test of line 56, "done"  *)
(* after run); has_html: html_content[0] is not None; polls: the times     *)
(* line 54 added 0.1 to elapsed; callback: whether toHtml still owes its   *)
(* callback; scraped: scraper.scrape was called; signals: what run emitted. *)

timeout        == 10    \* seconds, line 50
PollsPerSecond == 10    \* time.sleep(0.1), elapsed += 0.1

\* elapsed < timeout after n additions of 0.1: the double sum of 100 times
\* 0.1 is 9.99999999999998, so the test fails first at n = 101
ElapsedBelowTimeout(n) == n <= timeout * PollsPerSecond

TimeoutMessage == "Timeout waiting for HTML content"

Signal(name, msg, d) == [name |-> name, msg |-> msg, df |-> d]

NoThread ==
    [at |-> "none", config |-> <<>>, has_html |-> FALSE, html_content |-> <<>>,
     polls |-> 0, callback |-> "none", scraped |-> FALSE, signals |-> <<>>]

\* ScrapeThread(webview, config)
NewThread(cfg) == [NoThread EXCEPT !.at = "created", !.config = cfg]

\* lines 33-51: the first progress, the request to toHtml, elapsed = 0
RunStart(t) ==
    [t EXCEPT !.at = "polling", !.callback = "pending", !.polls = 0,
              !.signals = Append(@, Signal("progress", "Retrieving page HTML...", EmptyDataFrame))]

\* html_callback(html)
html_callback(t, page) ==
    [t EXCEPT !.has_html = TRUE, !.html_content = page, !.callback = "delivered"]

\* the test of the while loop, line 52
LoopGoesOn(t) == ~t.has_html /\ ElapsedBelowTimeout(t.polls)

\* RunAfterWait without the test of line 56: None is handed to the scraper as an empty page
RunAfterWait_NoNoneTest(t) ==
    LET r == scrape(t.html_content, t.config)
        parsing == Append(t.signals, Signal("progress", "Parsing HTML...", EmptyDataFrame))
    IN  IF r.exc = "none"
        THEN [t EXCEPT !.at = "done", !.scraped = TRUE,
                 !.signals = parsing \o << Signal("progress", "Scraped rows", r.df),
                                           Signal("finished", "", r.df) >>]
        ELSE [t EXCEPT !.at = "done", !.scraped = TRUE,
                 !.signals = Append(parsing, Signal("error", r.exc, EmptyDataFrame))]

\* run without its except clause: a failure leaves run with no signal
RunAfterWait_NoExcept(t) ==
    IF ~t.has_html
    THEN [t EXCEPT !.at = "done"]
    ELSE LET r == scrape(t.html_content, t.config)
             parsing == Append(t.signals, Signal("progress", "Parsing HTML...", EmptyDataFrame))
         IN  IF r.exc = "none"
             THEN [t EXCEPT !.at = "done", !.scraped = TRUE,
                      !.signals = parsing \o << Signal("progress", "Scraped rows", r.df),
                                                Signal("finished", "", r.df) >>]
             ELSE [t EXCEPT !.at = "done", !.scraped = TRUE, !.signals = parsing]

\* lines 56-70: the test for None, the scrape, the signal of the outcome
RunAfterWait(t) ==
    IF ~t.has_html
    THEN [t EXCEPT !.at = "done",
             !.signals = Append(@, Signal("error", TimeoutMessage, EmptyDataFrame))]
    ELSE LET r == scrape(t.html_content, t.config)
             parsing == Append(t.signals, Signal("progress", "Parsing HTML...", EmptyDataFrame))
         IN  IF r.exc = "none"
             THEN [t EXCEPT !.at = "done", !.scraped = TRUE,
                      !.signals = parsing \o << Signal("progress", "Scraped rows", r.df),
                                                Signal("finished", "", r.df) >>]
             ELSE [t EXCEPT !.at = "done", !.scraped = TRUE,
                      !.signals = Append(parsing, Signal("error", r.exc, EmptyDataFrame))]

----------------------------------------------------------------------------
(* RecipeManager (utils/recipe_manager.py).  A recipe file is text: what   *)
(* json.dump writes, character by character, and what json.load makes of   *)
(* the characters it reads.                                                *)

J_Bool(b) == [t |-> "bool", n |-> IF b THEN 1 ELSE 0, s |-> <<>>, items |-> <<>>]
J_Null    == [t |-> "null", n |-> 0, s |-> <<>>, items |-> <<>>]

Quote     == "\""
Backslash == "\\"
Newline   == "\n"
Tab       == "\t"

S_version == <<"v","e","r","s","i","o","n">>
S_config  == <<"c","o","n","f","i","g">>
S_1_0     == <<"1",".","0">>

\* EscapeChar that writes a backslash as it is
EscapeChar_NoBackslash(c) ==
    CASE c = Quote     -> << Backslash, Quote >>
      [] c = Newline   -> << Backslash, "n" >>
      [] c = Tab       -> << Backslash, "t" >>
      [] OTHER         -> << c >>

\* json: a character inside a string literal
EscapeChar(c) ==
    CASE c = Quote     -> << Backslash, Quote >>
      [] c = Backslash -> << Backslash, Backslash >>
      [] c = Newline   -> << Backslash, "n" >>
      [] c = Tab       -> << Backslash, "t" >>
      [] OTHER         -> << c >>

RECURSIVE EscapeFrom(_, _)
EscapeFrom(s, i) == IF i > Len(s) THEN <<>> ELSE EscapeChar(s[i]) \o EscapeFrom(s, i + 1)

\* json: a string literal
EncodeString(s) == << Quote >> \o EscapeFrom(s, 1) \o << Quote >>

\* indent=2 at nesting depth `level`
Indent(level) == Repeat(" ", 2 * level)

\* json.dumps(v, indent=2), v at nesting depth `level`
RECURSIVE Dumps(_, _)
RECURSIVE DumpItems(_, _, _, _)
DumpItems(items, level, n, keyed) ==
    IF n = 0 THEN <<>>
    ELSE (IF n > 1 THEN DumpItems(items, level, n - 1, keyed) \o << ",", Newline >> ELSE <<>>)
         \o Indent(level)
         \o (IF keyed
             THEN EncodeString(items[n].k) \o << ":", " " >> \o Dumps(items[n].v, level)
             ELSE Dumps(items[n], level))

Dumps(v, level) ==
    CASE v.t = "null" -> << "n", "u", "l", "l" >>
      [] v.t = "bool" -> IF v.n = 1 THEN << "t", "r", "u", "e" >> ELSE << "f", "a", "l", "s", "e" >>
      [] v.t = "int"  -> IntToStr(v.n)
      [] v.t = "str"  -> EncodeString(v.s)
      [] v.t = "list" ->
            IF v.items = <<>> THEN << "[", "]" >>
            ELSE << "[", Newline >> \o DumpItems(v.items, level + 1, Len(v.items), FALSE)
                 \o << Newline >> \o Indent(level) \o << "]" >>
      [] v.t = "dict" ->
            IF v.items = <<>> THEN << "{", "}" >>
            ELSE << "{", Newline >> \o DumpItems(v.items, level + 1, Len(v.items), TRUE)
                 \o << Newline >> \o Indent(level) \o << "}" >>

\* what the decoder returns: a value and the place after it, or a failure
\* (json.JSONDecodeError)
Decoded(v, pos) == [ok |-> TRUE, v |-> v, pos |-> pos]
DecodeError == [ok |-> FALSE, v |-> J_Null, pos |-> 0]

IsWhitespace(c) == c \in {" ", Newline, Tab, "\r"}

RECURSIVE SkipWhitespace(_, _)
SkipWhitespace(t, i) ==
    IF i <= Len(t) /\ IsWhitespace(t[i]) THEN SkipWhitespace(t, i + 1) ELSE i

\* a string literal whose opening quote stands before place i
RECURSIVE ParseString(_, _, _)
ParseString(t, i, acc) ==
    IF i > Len(t) THEN DecodeError
    ELSE IF t[i] = Quote THEN Decoded(J_Str(acc), i + 1)
    ELSE IF t[i] = Backslash
         THEN IF i + 1 > Len(t) THEN DecodeError
              ELSE IF t[i + 1] \in {Quote, Backslash, "/"}
                   THEN ParseString(t, i + 2, Append(acc, t[i + 1]))
              ELSE IF t[i + 1] = "n" THEN ParseString(t, i + 2, Append(acc, Newline))
              ELSE IF t[i + 1] = "t" THEN ParseString(t, i + 2, Append(acc, Tab))
              ELSE DecodeError
    ELSE IF t[i] \in {Newline, Tab, "\r"} THEN DecodeError
    ELSE ParseString(t, i + 1, Append(acc, t[i]))

IsDigit(c) == \E d \in DOMAIN DigitChars : DigitChars[d] = c

DigitValue(c) == (CHOOSE d \in DOMAIN DigitChars : DigitChars[d] = c) - 1

\* the digits from place i on, after the digits that made n
RECURSIVE ParseDigits(_, _, _)
ParseDigits(t, i, n) ==
    IF i <= Len(t) /\ IsDigit(t[i])
    THEN ParseDigits(t, i + 1, 10 * n + DigitValue(t[i]))
    ELSE Decoded(J_Int(n), i)

\* the word at place i
ParseWord(t, i, word, v) ==
    IF i + Len(word) - 1 <= Len(t) /\ SubSeq(t, i, i + Len(word) - 1) = word
    THEN Decoded(v, i + Len(word))
    ELSE DecodeError

\* a value from place i on: objects, arrays, strings, true, false, null and
\* the integers without sign
RECURSIVE ParseValue(_, _)
RECURSIVE ParseMembers(_, _, _, _)
RECURSIVE ParseElements(_, _, _, _)
ParseMembers(t, i, acc, first) ==
    LET j == SkipWhitespace(t, i)
    IN  IF j > Len(t) THEN DecodeError
        ELSE IF t[j] = "}" THEN (IF first THEN Decoded(J_Dict(acc), j + 1) ELSE DecodeError)
        ELSE IF t[j] # Quote THEN DecodeError
        ELSE LET key == ParseString(t, j + 1, <<>>)
             IN  IF ~key.ok THEN DecodeError
                 ELSE LET c == SkipWhitespace(t, key.pos)
                      IN  IF c > Len(t) \/ t[c] # ":" THEN DecodeError
                          ELSE LET val == ParseValue(t, c + 1)
                               IN  IF ~val.ok THEN DecodeError
                                   ELSE LET e    == SkipWhitespace(t, val.pos)
                                            more == DictSet(acc, key.v.s, val.v)
                                        IN  IF e > Len(t) THEN DecodeError
                                            ELSE IF t[e] = "," THEN ParseMembers(t, e + 1, more, FALSE)
                                            ELSE IF t[e] = "}" THEN Decoded(J_Dict(more), e + 1)
                                            ELSE DecodeError

ParseElements(t, i, acc, first) ==
    LET j == SkipWhitespace(t, i)
    IN  IF j > Len(t) THEN DecodeError
        ELSE IF t[j] = "]" THEN (IF first THEN Decoded(J_List(acc), j + 1) ELSE DecodeError)
        ELSE LET val == ParseValue(t, j)
             IN  IF ~val.ok THEN DecodeError
                 ELSE LET e    == SkipWhitespace(t, val.pos)
                          more == Append(acc, val.v)
                      IN  IF e > Len(t) THEN DecodeError
                          ELSE IF t[e] = "," THEN ParseElements(t, e + 1, more, FALSE)
                          ELSE IF t[e] = "]" THEN Decoded(J_List(more), e + 1)
                          ELSE DecodeError

ParseValue(t, i) ==
    LET j == SkipWhitespace(t, i)
    IN  IF j > Len(t) THEN DecodeError
        ELSE IF t[j] = "{" THEN ParseMembers(t, j + 1, <<>>, TRUE)
        ELSE IF t[j] = "[" THEN ParseElements(t, j + 1, <<>>, TRUE)
        ELSE IF t[j] = Quote THEN ParseString(t, j + 1, <<>>)
        ELSE IF t[j] = "t" THEN ParseWord(t, j, << "t", "r", "u", "e" >>, J_Bool(TRUE))
        ELSE IF t[j] = "f" THEN ParseWord(t, j, << "f", "a", "l", "s", "e" >>, J_Bool(FALSE))
        ELSE IF t[j] = "n" THEN ParseWord(t, j, << "n", "u", "l", "l" >>, J_Null)
        ELSE IF t[j] = "0" THEN Decoded(J_Int(0), j + 1)
        ELSE IF IsDigit(t[j]) THEN ParseDigits(t, j, 0)
        ELSE DecodeError

\* json.load(f): one value, and nothing but whitespace after it
Loads(t) ==
    LET r == ParseValue(t, 1)
    IN  IF r.ok /\ SkipWhitespace(t, r.pos) > Len(t) THEN r ELSE DecodeError

\* the keys of the Configuration, as characters
S_tables            == <<"t","a","b","l","e","s">>
S_links             == <<"l","i","n","k","s">>
S_images            == <<"i","m","a","g","e","s">>
S_auto_scroll       == <<"a","u","t","o","_","s","c","r","o","l","l">>
S_keyword_filter    == <<"k","e","y","w","o","r","d","_","f","i","l","t","e","r">>
S_regex_filter      == <<"r","e","g","e","x","_","f","i","l","t","e","r">>
S_remove_duplicates == <<"r","e","m","o","v","e","_","d","u","p","l","i","c","a","t","e","s">>

\* the Configuration dictionary as the value json.dump is given: the keys it
\* has, in the order get_scrape_config wrote them
ConfigToJson(cfg) ==
    LET all == << [k |-> S_tables, v |-> J_Bool(cfg.tables), key |-> "tables"],
                  [k |-> K_text, v |-> J_Bool(cfg.text), key |-> "text"],
                  [k |-> S_links, v |-> J_Bool(cfg.links), key |-> "links"],
                  [k |-> S_images, v |-> J_Bool(cfg.images), key |-> "images"],
                  [k |-> S_auto_scroll, v |-> J_Bool(cfg.auto_scroll), key |-> "auto_scroll"],
                  [k |-> S_keyword_filter, v |-> J_Str(cfg.keyword_filter),
                   key |-> "keyword_filter"],
                  [k |-> S_regex_filter, v |-> J_Str(cfg.regex_filter), key |-> "regex_filter"],
                  [k |-> S_remove_duplicates, v |-> J_Bool(cfg.remove_duplicates),
                   key |-> "remove_duplicates"] >>
        has == PositionsFrom([i \in DOMAIN all |-> all[i].key \notin cfg.absent], 1)
    IN  J_Dict([i \in DOMAIN has |-> [k |-> all[has[i]].k, v |-> all[has[i]].v]])

\* lines 26-29: recipe = {'version': '1.0', 'config': config}
RecipeOf(cfg) ==
    J_Dict(<< [k |-> S_version, v |-> J_Str(S_1_0)], [k |-> S_config, v |-> ConfigToJson(cfg)] >>)

\* a recipe file: whether it exists, and its characters
NoFile == [exists |-> FALSE, content |-> <<>>]
FileOf(content) == [exists |-> TRUE, content |-> content]

\* what load_recipe returns: None, or a value
ReturnNone == [none |-> TRUE, v |-> J_Null]
ReturnValue(v) == [none |-> FALSE, v |-> v]

\* save_recipe (lines 15-40).  `io` is what the file system does: "ok";
\* "open": open() raises and the file is as it was; "write": the write
\* fails after the first half of the text.  Returns the file and True/False.
save_recipe(file, cfg, io) ==
    LET text == Dumps(RecipeOf(cfg), 0)
    IN  CASE io = "ok"    -> [file |-> FileOf(text), returned |-> TRUE]
          [] io = "open"  -> [file |-> file, returned |-> FALSE]
          [] io = "write" -> [file |-> FileOf(SubSeq(text, 1, Len(text) \div 2)), returned |-> FALSE]

\* 'config' in recipe, for the values json.load returns; "TypeError" for those
\* that are no container
HasConfigKey(root) ==
    CASE root.t = "dict" -> IF JsonHas(root, S_config) THEN "yes" ELSE "no"
      [] root.t = "list" -> IF \E i \in DOMAIN root.items : root.items[i] = J_Str(S_config)
                            THEN "yes" ELSE "no"
      [] root.t = "str"  -> IF Contains(root.s, S_config) THEN "yes" ELSE "no"
      [] OTHER           -> "TypeError"

\* load_recipe (lines 42-69)
load_recipe(file) ==
    IF ~file.exists THEN ReturnNone
    ELSE LET parsed == Loads(file.content)
         IN  IF ~parsed.ok THEN ReturnNone
             ELSE LET has == HasConfigKey(parsed.v)
                  IN  IF has = "TypeError" THEN ReturnNone
                      ELSE IF has = "yes"
                           THEN IF parsed.v.t = "dict"
                                THEN ReturnValue(JsonGet(parsed.v, S_config))
                                ELSE ReturnNone
                      ELSE ReturnValue(parsed.v)

\* no file, nothing saved or loaded yet
NoRecipe ==
    [file |-> NoFile, origin |-> "missing", root |-> J_Null, at |-> "idle", saved |-> FALSE,
     returned |-> ReturnNone]

----------------------------------------------------------------------------
(* ScrapePanel: the handlers of its buttons and of the signals of its      *)
(* threads.                                                                *)

\* start_scraping, lines 243-264
start_scraping(p, cfg) ==
    IF ~p.webview
    THEN [p EXCEPT !.dialog = "No Page", !.last = "no page"]
    ELSE [p EXCEPT !.btn_scrape = FALSE,
                   !.threads = Append(@, [config |-> cfg, at |-> "running"]),
                   !.scrape_thread = Len(p.threads) + 1,
                   !.last = "started"]

\* the signal run ends with, for a thread given cfg on a page that delivers
\* its HTML (or never does)
FinalSignal(cfg, page, delivered) ==
    LET started == RunStart(NewThread(cfg))
        waited  == IF delivered
                   THEN [html_callback(started, page) EXCEPT !.at = "waited"]
                   ELSE [started EXCEPT !.at = "waited", !.polls = timeout * PollsPerSecond + 1]
    IN  CHOOSE sig \in { ended.signals[Len(ended.signals)] :
                          ended \in { RunAfterWait(waited) } } : TRUE

\* scraping_finished without the test of df.empty
scraping_finished_NoEmptyTest(p, t, d) ==
    [p EXCEPT !.btn_scrape = TRUE, !.threads[t].at = "done",
              !.has_df = TRUE, !.current_df = d, !.export_enabled = TRUE, !.last = "scraped"]

\* scraping_finished, lines 283-300, for the signal of thread t
scraping_finished(p, t, d) ==
    LET q == [p EXCEPT !.btn_scrape = TRUE, !.threads[t].at = "done"]
    IN  IF ~IsEmpty(d)
        THEN [q EXCEPT !.has_df = TRUE, !.current_df = d, !.export_enabled = TRUE,
                       !.last = "scraped"]
        ELSE [q EXCEPT !.dialog = "No Data", !.last = "scrape empty"]

\* scraping_error, lines 302-309, for the signal of thread t
scraping_error(p, t, error_msg) ==
    [p EXCEPT !.btn_scrape = TRUE, !.threads[t].at = "done",
              !.dialog = "Scraping Error", !.last = "scrape error"]

\* config.get(key, default) of a loaded recipe, for a checkbox and for a text field
RecipeFlag(loaded, key, default) ==
    IF JsonHas(loaded, key) THEN JsonGet(loaded, key).n = 1 ELSE default

RecipeText(loaded, key) ==
    IF JsonHas(loaded, key) THEN JsonGet(loaded, key).s ELSE <<>>

\* apply_config, lines 403-412: the widgets after it, as get_scrape_config reads them
apply_config(loaded) ==
    [absent |-> {},
     tables |-> RecipeFlag(loaded, S_tables, TRUE),
     text |-> RecipeFlag(loaded, K_text, FALSE),
     links |-> RecipeFlag(loaded, S_links, FALSE),
     images |-> RecipeFlag(loaded, S_images, FALSE),
     auto_scroll |-> RecipeFlag(loaded, S_auto_scroll, FALSE),
     keyword_filter |-> RecipeText(loaded, S_keyword_filter),
     regex_filter |-> RecipeText(loaded, S_regex_filter),
     remove_duplicates |-> RecipeFlag(loaded, S_remove_duplicates, TRUE)]

\* `if config:` for what load_recipe returned
IsTruthy(returned) ==
    /\ ~returned.none
    /\ CASE returned.v.t \in {"dict", "list"} -> returned.v.items # <<>>
         [] returned.v.t = "str" -> returned.v.s # <<>>
         [] returned.v.t = "int" -> returned.v.n # 0
         [] returned.v.t = "bool" -> returned.v.n = 1
         [] OTHER -> FALSE

\* ScrapePanel.load_recipe, lines 379-401, for what RecipeManager.load_recipe
\* returned for the file chosen and for the answer to the question: the panel
\* and the widgets after it
ScrapePanel_load_recipe(p, cfg, loaded, reply) ==
    IF ~IsTruthy(loaded)
    THEN [panel |-> [p EXCEPT !.last = "no recipe"], config |-> cfg]
    ELSE IF reply = "Yes"
         THEN [panel |-> start_scraping(p, apply_config(loaded.v)),
               config |-> apply_config(loaded.v)]
         ELSE [panel |-> [p EXCEPT !.last = "recipe applied"],
               config |-> apply_config(loaded.v)]

\* export_data, lines 327-365; written: to_csv / to_json / to_excel returned
export_data(p, written) ==
    IF ~p.has_df THEN p
    ELSE [p EXCEPT !.exported = p.current_df,
                   !.dialog = IF written THEN "Export Successful" ELSE "Export Failed",
                   !.last = "exported"]

----------------------------------------------------------------------------
(* Inputs: the pages and the Configurations the calls are made with *)

MaxTables == 2     \* <table> elements of a page of tables
MaxRows   == 2     \* <tr> elements of a page of tables, all tables together
MaxNodes  == 2     \* elements of a mixed page

S_Name   == <<"N","a","m","e">>
S_Age    == <<"A","g","e">>
S_Al     == <<"A","l">>
S_30     == <<"3","0">>
S_Apple  == <<"A","p","p","l","e">>
S_Banana == <<"B","a","n","a","n","a">>
S_x      == <<"x">>

\* the rows a table is built from
RowSet ==
    { <<>>,
      << Cell("th", S_Name), Cell("th", S_Age) >>,
      << Cell("td", S_Al), Cell("td", S_30) >>,
      << Cell("th", K_type) >>,
      << Cell("td", <<" ", "x", " ">>) >>,
      << Cell("th", S_Age), Cell("td", S_Al) >>,
      << Cell("th", S_Age), Cell("th", S_Age) >> }

\* f[1] + ... + f[n]
RECURSIVE SumOver(_, _)
SumOver(f, n) == IF n = 0 THEN 0 ELSE SumOver(f, n - 1) + f[n]

\* the rows first+1 .. first+count of a sequence of rows
RowsFrom(rows, first, count) == SubSeq(rows, first + 1, first + count)

\* the page of k tables that share out the rows in document order: table i
\* has sizes[i] rows, the first thead[i] of them inside its <thead> (thead[i]
\* = -1: no <thead>)
PageOfTables(rows, sizes, thead) ==
    [i \in DOMAIN sizes |->
        Table(thead[i], RowsFrom(rows, SumOver(sizes, i - 1), sizes[i]))]

\* <table><tr><th>Name</th><th>Age</th></tr><tr><td>Al</td><td>30</td></tr></table>
ExampleTable ==
    Table(-1, << << Cell("th", S_Name), Cell("th", S_Age) >>,
                 << Cell("td", S_Al), Cell("td", S_30) >> >>)

ExampleHtml == << ExampleTable >>

Anchor(names, text, href, title) ==
    [Elem("a", text) EXCEPT !.attrs = [NoAttrs EXCEPT !.names = names, !.href = href, !.title = title]]

Img(names, src, alt) ==
    [Elem("img", <<>>) EXCEPT !.attrs = [NoAttrs EXCEPT !.names = names, !.src = src, !.alt = alt]]

\* the elements a mixed page is built from
NodeSet ==
    { ExampleTable,
      Table(-1, << << Cell("th", K_row_index) >>, << Cell("th", K_row_index) >> >>),
      Table(-1, << << Cell("th", K_type) >>, << Cell("td", S_x) >> >>),
      Table(-1, << << Cell("th", K_type) >>, << Cell("td", T_link) >> >>),
      Elem("p", S_Apple),
      Elem("p", <<" ">>),
      Elem("h1", S_Banana),
      Elem("h2", S_x),
      Elem("div", Repeat("x", MinDivLen)),
      Elem("div", Repeat("x", MinDivLen + 1)),
      Anchor({"href"}, S_Al, <<"/", "a">>, <<>>),
      Anchor({"title"}, S_Al, <<>>, S_x),
      Img({"src", "alt"}, <<"a", ".", "p", "n", "g">>, S_Banana),
      Img({"alt"}, <<>>, S_x) }

MixedPages == UNION { [1..n -> NodeSet] : n \in 0..MaxNodes }

\* an element placed inside the element at place p of its page
Inside(node, p) == [node EXCEPT !.parent = p]

\* <div>x...x<p>Apple</p></div>, the <div> with MinDivLen + 1 and with
\* MinDivLen characters of text in all; and <div><p> </p></div>
NestedPages ==
    { << Elem("div", Repeat("x", MinDivLen - 4) \o S_Apple), Inside(Elem("p", S_Apple), 1) >>,
      << Elem("div", Repeat("x", MinDivLen - 5) \o S_Apple), Inside(Elem("p", S_Apple), 1) >>,
      << Elem("div", <<" ">>), Inside(Elem("p", <<" ">>), 1) >> }

FlagKeys == {"tables", "text", "links", "images"}

ConfigOf(absent, tables, text, links, images, keyword, regex, dedup) ==
    [absent |-> absent, tables |-> tables, text |-> text, links |-> links,
     images |-> images, auto_scroll |-> FALSE, keyword_filter |-> keyword,
     regex_filter |-> regex, remove_duplicates |-> dedup]

\* {tables: true}
TablesOnly ==
    ConfigOf({"text", "links", "images", "auto_scroll", "keyword_filter",
              "regex_filter", "remove_duplicates"},
             TRUE, FALSE, FALSE, FALSE, <<>>, <<>>, FALSE)

\* {}
NoKeys ==
    ConfigOf(FlagKeys \cup {"auto_scroll", "keyword_filter", "regex_filter", "remove_duplicates"},
             FALSE, FALSE, FALSE, FALSE, <<>>, <<>>, FALSE)

TableConfigs == { TablesOnly }

KeywordFilters == { <<>>, <<"n","a","n">> }

\* every choice of the four flags without filters, every filter with the
\* four flags set, and the Configuration without keys
ScrapeConfigs ==
    { ConfigOf({}, tb, tx, ln, im, <<>>, <<>>, FALSE) :
        tb \in BOOLEAN, tx \in BOOLEAN, ln \in BOOLEAN, im \in BOOLEAN }
    \cup { ConfigOf({}, TRUE, TRUE, TRUE, TRUE, kw, <<>>, dd) :
             kw \in KeywordFilters, dd \in BOOLEAN }
    \cup { NoKeys }

----------------------------------------------------------------------------
(* HTMLScraper.scrape as one call: the caller has a page and a             *)
(* Configuration, the call leaves its records, its DataFrame and its       *)
(* result.                                                                 *)

NoResult == [exc |-> "pending", df |-> EmptyDataFrame, warned |-> FALSE]

Scrape ==
    /\ pc = "ready"
    /\ LET tagged == Extracted(html, config)
       IN  /\ all_data' = Recs(tagged)
           /\ all_src' = Srcs(tagged)
           /\ df' = IF tagged = <<>> THEN EmptyDataFrame ELSE DataFrame(Recs(tagged))
           /\ result' = scrape(html, config)
    /\ pc' = "done"
    /\ UNCHANGED <<html, config, response, panel, thread, scraper, recipe>>

InitCall ==
    /\ pc = "ready"
    /\ all_data = <<>>
    /\ all_src = <<>>
    /\ df = EmptyDataFrame
    /\ result = NoResult
    /\ response = NoResponse
    /\ panel = NewPanel
    /\ thread = NoThread
    /\ scraper = NoScraper
    /\ recipe = NoRecipe

\* a page of at most MaxTables tables with at most MaxRows rows in all
InitTables ==
    /\ InitCall
    /\ config \in TableConfigs
    /\ \E n \in 0..MaxRows : \E rows \in [1..n -> RowSet] :
       \E k \in 0..MaxTables : \E sizes \in [1..k -> 0..n] :
          /\ SumOver(sizes, k) = n
          /\ \E thead \in [1..k -> -1..n] :
                /\ \A i \in 1..k : thead[i] <= sizes[i]
                /\ html = PageOfTables(rows, sizes, thead)

SpecTables == InitTables /\ [][Scrape]_vars

InitScrape == InitCall /\ html \in MixedPages \cup NestedPages /\ config \in ScrapeConfigs

SpecScrape == InitScrape /\ [][Scrape]_vars

----------------------------------------------------------------------------
(* HTMLScraper.apply_filters as one call, on a DataFrame built from records *)

MaxRecords == 2    \* records of a DataFrame handed to apply_filters

S_y == <<"y">>
S_n == <<"n">>

\* the records the DataFrames are built from: the rows {x: "Apple"} and
\* {x: "Banana"}, a record with other columns, one with an integer column
RecordSet ==
    { << [k |-> S_x, v |-> V_Str(S_Apple)] >>,
      << [k |-> S_x, v |-> V_Str(S_Banana)] >>,
      << [k |-> S_y, v |-> V_Str(S_Al)] >>,
      << [k |-> S_x, v |-> V_Str(S_Al)], [k |-> S_n, v |-> V_Int(30)] >> }

FilterKeywords ==
    { <<>>,
      <<" ", " ">>,
      <<",">>,
      <<" ", ",", " ", ",">>,
      <<"a","p","p","l","e">>,
      <<"n","a","n">>,
      <<"3","0">>,
      <<" ", "B", "A", " ", ",", "a", "l", ",">> }

FilterPatterns == { <<>>, <<"^", "B">>, <<"(">>, <<"a", "n">>, <<"^", "a">> }

FilterConfigs ==
    { ConfigOf({}, FALSE, FALSE, FALSE, FALSE, kw, re, FALSE) :
        kw \in FilterKeywords, re \in FilterPatterns }

ApplyFilters ==
    /\ pc = "ready"
    /\ result' = apply_filters(df, config)
    /\ pc' = "done"
    /\ UNCHANGED <<html, config, all_data, all_src, df, response, panel, thread, scraper, recipe>>

InitFilter ==
    /\ pc = "ready"
    /\ response = NoResponse
    /\ panel = NewPanel
    /\ thread = NoThread
    /\ scraper = NoScraper
    /\ recipe = NoRecipe
    /\ html = <<>>
    /\ all_src = <<>>
    /\ result = NoResult
    /\ config \in FilterConfigs
    /\ \E n \in 0..MaxRecords : all_data \in [1..n -> RecordSet]
    /\ df = IF all_data = <<>> THEN EmptyDataFrame ELSE DataFrame(all_data)

SpecFilter == InitFilter /\ [][ApplyFilters]_vars

----------------------------------------------------------------------------
(* ScrapePanel.fetch_api_data as one handler: an item of the API list is   *)
(* double-clicked while the widgets hold a Configuration; the handler      *)
(* calls APIHunter.fetch_api_data and shows what it got.                   *)

S_results == <<"r","e","s","u","l","t","s">>
S_data    == <<"d","a","t","a">>

RowApple  == J_Dict(<< [k |-> S_x, v |-> J_Str(S_Apple)] >>)
RowBanana == J_Dict(<< [k |-> S_x, v |-> J_Str(S_Banana)] >>)
RowAl     == J_Dict(<< [k |-> S_y, v |-> J_Str(S_Al)] >>)

S_a == <<"a">>
S_b == <<"b">>

\* {"a": n}
RowA(n) == J_Dict(<< [k |-> S_a, v |-> J_Int(n)] >>)

\* the bodies that are valid JSON
JsonBodies ==
    { J_List(<<>>),
      J_List(<< J_Int(1), J_Int(2) >>),
      J_List(<< J_Str(S_Apple) >>),
      J_List(<< RowApple, RowBanana >>),
      J_List(<< RowApple, RowApple >>),
      J_List(<< RowApple, RowAl >>),
      J_Dict(<< [k |-> S_results, v |-> J_List(<< RowBanana, RowApple >>)] >>),
      J_Dict(<< [k |-> S_results, v |-> J_Int(1)],
                [k |-> S_data, v |-> J_List(<< RowApple >>)] >>),
      J_Dict(<< [k |-> S_x, v |-> J_Str(S_Apple)],
                [k |-> S_n, v |-> J_Dict(<< [k |-> S_y, v |-> J_Int(30)] >>)] >>),
      J_Dict(<< [k |-> S_x, v |-> J_List(<< J_Int(1), J_Str(S_Al) >>)] >>),
      J_Dict(<<>>),
      J_Int(5),
      J_Str(S_Al),
      J_Dict(<< [k |-> S_results, v |-> J_List(<< RowA(1), RowA(2) >>)] >>),
      J_Dict(<< [k |-> S_data, v |-> J_List(<< RowApple >>)],
                [k |-> S_results, v |-> J_List(<< RowBanana >>)] >>),
      J_List(<< J_Int(1), J_Int(2), J_Int(3) >>),
      J_List(<< RowA(1), J_Int(2) >>),
      J_Dict(<< [k |-> S_a, v |-> J_Dict(<< [k |-> S_b, v |-> J_Int(1)] >>)] >>),
      J_Dict(<< [k |-> S_a, v |-> J_Dict(<< [k |-> S_b, v |->
                    J_Dict(<< [k |-> S_x, v |-> J_Int(1)],
                              [k |-> S_y, v |-> J_List(<< J_Int(1), J_Int(2) >>)] >>)] >>)],
                [k |-> S_b, v |-> J_Str(S_Al)] >>),
      J_Dict(<< [k |-> <<>>, v |-> J_Dict(<< [k |-> S_b, v |-> J_Int(1)] >>)] >>) }

Statuses == {200, 201, 304, 404, 500}

DecodeErrors ==
    {"requests.exceptions.JSONDecodeError", "json.JSONDecodeError",
     "simplejson.JSONDecodeError"}

Responses ==
    { [transport |-> "failed", status |-> 0, valid |-> FALSE, raises |-> "none",
       json |-> J_Int(0)] }
    \cup { [transport |-> "ok", status |-> st, valid |-> TRUE, raises |-> "none",
            json |-> body] : st \in Statuses, body \in JsonBodies }
    \cup { [transport |-> "ok", status |-> st, valid |-> FALSE, raises |-> cls,
            json |-> J_Int(0)] : st \in Statuses, cls \in DecodeErrors }

\* what get_scrape_config reads off the widgets: every key, the filters typed
PanelConfigs ==
    { ConfigOf({}, TRUE, FALSE, FALSE, FALSE, kw, re, dd) :
        kw \in { <<>>, <<"a","p","p","l","e">> }, re \in { <<>>, <<"^", "B">> },
        dd \in BOOLEAN }

FetchApiData ==
    /\ pc = "ready"
    /\ result' = fetch_api_data(response)
    /\ panel' = PanelAfterFetch(panel, fetch_api_data(response))
    /\ pc' = "done"
    /\ UNCHANGED <<html, config, all_data, all_src, df, response, thread, scraper, recipe>>

InitApi ==
    /\ pc = "ready"
    /\ html = <<>>
    /\ all_data = <<>>
    /\ all_src = <<>>
    /\ df = EmptyDataFrame
    /\ result = NoResult
    /\ panel = NewPanel
    /\ thread = NoThread
    /\ scraper = NoScraper
    /\ recipe = NoRecipe
    /\ response \in Responses
    /\ config \in PanelConfigs

SpecApi == InitApi /\ [][FetchApiData]_vars

----------------------------------------------------------------------------
(* ScrapeThread.run beside the page: run polls html_content while the page *)
(* delivers the HTML to html_callback at a moment of its own, or never.    *)

\* a paragraph, and the table of the scenario
ThreadPages == { <<>>, << Elem("p", S_Apple) >>, ExampleHtml }

\* the widgets as built; a keyword and a pattern that keep the second row only
ThreadConfigs ==
    { ConfigOf({}, TRUE, TRUE, FALSE, FALSE, <<>>, <<>>, TRUE),
      ConfigOf({}, TRUE, TRUE, FALSE, FALSE, <<"a", "l">>, <<"^", "a">>, TRUE) }

\* QThread.start(): run begins
Run ==
    /\ thread.at = "created"
    /\ thread' = RunStart(thread)
    /\ UNCHANGED <<html, config, pc, all_data, all_src, df, result, response, panel,
                   scraper, recipe>>

\* the page calls html_callback with its HTML
HtmlCallback ==
    /\ thread.callback = "pending"
    /\ thread' = html_callback(thread, html)
    /\ UNCHANGED <<html, config, pc, all_data, all_src, df, result, response, panel,
                   scraper, recipe>>

\* one turn of the loop: time.sleep(0.1); elapsed += 0.1
Poll ==
    /\ thread.at = "polling"
    /\ LoopGoesOn(thread)
    /\ thread' = [thread EXCEPT !.polls = @ + 1]
    /\ UNCHANGED <<html, config, pc, all_data, all_src, df, result, response, panel,
                   scraper, recipe>>

\* the test of the loop fails
LoopExit ==
    /\ thread.at = "polling"
    /\ ~LoopGoesOn(thread)
    /\ thread' = [thread EXCEPT !.at = "waited"]
    /\ UNCHANGED <<html, config, pc, all_data, all_src, df, result, response, panel,
                   scraper, recipe>>

\* the rest of run
AfterWait ==
    /\ thread.at = "waited"
    /\ thread' = RunAfterWait(thread)
    /\ UNCHANGED <<html, config, pc, all_data, all_src, df, result, response, panel,
                   scraper, recipe>>

InitThread ==
    /\ pc = "thread"
    /\ all_data = <<>>
    /\ all_src = <<>>
    /\ df = EmptyDataFrame
    /\ result = NoResult
    /\ response = NoResponse
    /\ panel = NewPanel
    /\ html \in ThreadPages
    /\ config \in ThreadConfigs
    /\ thread = NewThread(config)
    /\ scraper = NoScraper
    /\ recipe = NoRecipe

NextThread == Run \/ HtmlCallback \/ Poll \/ LoopExit \/ AfterWait

SpecThread == InitThread /\ [][NextThread]_vars

\* The thread's own steps are taken by a started QThread that the operating
\* system keeps scheduling: the loop of lines 52-54 sleeps a bounded time a
\* bounded number of times, and nothing else in run blocks.  The page owes
\* its callback to nobody, so HtmlCallback has no fairness.  AfterWait is
\* enabled exactly in the states with thread.at = "waited" and every step
\* that leaves them is an AfterWait step, so its weak fairness
\* WF_vars(AfterWait) is the last conjunct.
SpecThreadFair ==
    SpecThread /\ WF_vars(Run \/ Poll \/ LoopExit) /\ []<>(thread.at # "waited")

----------------------------------------------------------------------------
(* Two scrape calls at once: on one HTMLScraper object, or on two.         *)

\* a paragraph; the table of the scenario; a heading and a link
ConcurrentPages ==
    { << Elem("p", S_Apple) >>,
      ExampleHtml,
      << Elem("h1", S_Banana), Anchor({"href"}, S_Al, <<"/", "a">>, <<>>) >> }

\* everything enabled, and {tables: true}
ConcurrentConfigs == { ConfigOf({}, TRUE, TRUE, TRUE, TRUE, <<>>, <<>>, FALSE), TablesOnly }

Parse ==
    \E c \in DOMAIN scraper.calls :
        /\ scraper.calls[c].at = "parse"
        /\ scraper' = ParseStep(scraper, c)
        /\ UNCHANGED <<html, config, pc, all_data, all_src, df, result, response, panel,
                       thread, recipe>>

ExtractTables ==
    \E c \in DOMAIN scraper.calls :
        /\ scraper.calls[c].at = "tables"
        /\ scraper' = TablesStep(scraper, c)
        /\ UNCHANGED <<html, config, pc, all_data, all_src, df, result, response, panel,
                       thread, recipe>>

ExtractParagraphs ==
    \E c \in DOMAIN scraper.calls :
        /\ scraper.calls[c].at = "paragraphs"
        /\ scraper' = ParagraphsStep(scraper, c)
        /\ UNCHANGED <<html, config, pc, all_data, all_src, df, result, response, panel,
                       thread, recipe>>

ExtractHeadings ==
    \E c \in DOMAIN scraper.calls :
        /\ scraper.calls[c].at = "headings"
        /\ scraper' = HeadingStep(scraper, c)
        /\ UNCHANGED <<html, config, pc, all_data, all_src, df, result, response, panel,
                       thread, recipe>>

ExtractDivs ==
    \E c \in DOMAIN scraper.calls :
        /\ scraper.calls[c].at = "divs"
        /\ scraper' = DivsStep(scraper, c)
        /\ UNCHANGED <<html, config, pc, all_data, all_src, df, result, response, panel,
                       thread, recipe>>

ExtractLinks ==
    \E c \in DOMAIN scraper.calls :
        /\ scraper.calls[c].at = "links"
        /\ scraper' = LinksStep(scraper, c)
        /\ UNCHANGED <<html, config, pc, all_data, all_src, df, result, response, panel,
                       thread, recipe>>

ExtractImages ==
    \E c \in DOMAIN scraper.calls :
        /\ scraper.calls[c].at = "images"
        /\ scraper' = ImagesStep(scraper, c)
        /\ UNCHANGED <<html, config, pc, all_data, all_src, df, result, response, panel,
                       thread, recipe>>

BuildFrame ==
    \E c \in DOMAIN scraper.calls :
        /\ scraper.calls[c].at = "frame"
        /\ scraper' = FrameStep(scraper, c)
        /\ UNCHANGED <<html, config, pc, all_data, all_src, df, result, response, panel,
                       thread, recipe>>

\* two calls about to start: both on object 1, or one on each of two objects
InitConcurrent ==
    /\ pc = "calls"
    /\ html = <<>>
    /\ config = NoKeys
    /\ all_data = <<>>
    /\ all_src = <<>>
    /\ df = EmptyDataFrame
    /\ result = NoResult
    /\ response = NoResponse
    /\ panel = NewPanel
    /\ thread = NoThread
    /\ recipe = NoRecipe
    /\ \E self2 \in {1, 2} :
       \E page1 \in ConcurrentPages, page2 \in ConcurrentPages :
       \E cfg1 \in ConcurrentConfigs, cfg2 \in ConcurrentConfigs :
          scraper = [soup  |-> << <<>>, <<>> >>,
                     calls |-> << NewCall(1, page1, cfg1), NewCall(self2, page2, cfg2) >>]

NextConcurrent ==
    \/ Parse \/ ExtractTables \/ ExtractParagraphs \/ ExtractHeadings \/ ExtractDivs
    \/ ExtractLinks \/ ExtractImages \/ BuildFrame

SpecConcurrent == InitConcurrent /\ [][NextConcurrent]_vars

----------------------------------------------------------------------------
(* Recipes saved and loaded: one file, the Configuration of the widgets.   *)

\* the texts typed into the filter fields: a quote, a comma, a backslash
RecipeKeywords == { <<>>, << "a", Quote, "b" >>, << "x", ",", " ", "y" >> }
RecipePatterns == { <<>>, << Backslash, "d" >> }

RecipeConfigs ==
    { ConfigOf({}, tb, tx, FALSE, FALSE, kw, re, dd) :
        tb \in BOOLEAN, tx \in BOOLEAN, kw \in RecipeKeywords, re \in RecipePatterns,
        dd \in BOOLEAN }
    \cup { NoKeys, TablesOnly }

\* a file with its origin and, for a document, the value it was written from
RecipeFile(origin, file, root) == [origin |-> origin, file |-> file, root |-> root]

\* {"tables":true,"keyword_filter":"a\\b"} as its author typed it
LegacyText ==
    << "{", Quote, "t", "a", "b", "l", "e", "s", Quote, ":", "t", "r",
           "u", "e", ",", Quote, "k", "e", "y", "w", "o", "r", "d",
           "_", "f", "i", "l", "t", "e", "r", Quote, ":", Quote, "a",
           Backslash, Backslash, "b", Quote, "}" >>

LegacyRoot ==
    J_Dict(<< [k |-> S_tables, v |-> J_Bool(TRUE)],
              [k |-> S_keyword_filter, v |-> J_Str(<< "a", Backslash, "b" >>)] >>)

\* {"config": {"links": true}, "version": "1.0"}
WrappedText ==
    << "{", Quote, "c", "o", "n", "f", "i", "g", Quote, ":", " ", "{",
           Quote, "l", "i", "n", "k", "s", Quote, ":", " ", "t", "r",
           "u", "e", "}", ",", " ", Quote, "v", "e", "r", "s", "i",
           "o", "n", Quote, ":", " ", Quote, "1", ".", "0", Quote,
           "}" >>

WrappedRoot == J_Dict(<< [k |-> S_links, v |-> J_Bool(TRUE)] >>)

\* no file; files that are no JSON; legacy documents; a wrapped document;
\* documents whose root is no object
RecipeFiles ==
    { RecipeFile("missing", NoFile, J_Null),
      RecipeFile("garbage", FileOf(<<>>), J_Null),
      RecipeFile("garbage", FileOf(<< "{" >>), J_Null),
      RecipeFile("garbage", FileOf(<< "{", Quote, "a", Quote, ":", "1", ",", "}" >>), J_Null),
      RecipeFile("garbage", FileOf(<< "{", "}", "x" >>), J_Null),
      RecipeFile("legacy", FileOf(LegacyText), LegacyRoot),
      RecipeFile("legacy", FileOf(Dumps(ConfigToJson(TablesOnly), 0)), ConfigToJson(TablesOnly)),
      RecipeFile("legacy", FileOf(<< "{", "}" >>), J_Dict(<<>>)),
      RecipeFile("wrapped", FileOf(WrappedText), WrappedRoot),
      RecipeFile("other", FileOf(<< "[", "1", ",", " ", "2", "]" >>), J_Null),
      RecipeFile("other", FileOf(<< Quote, "a", Quote >>), J_Null),
      RecipeFile("other", FileOf(<< "7" >>), J_Null) }

\* RecipeManager.save_recipe(file_path, config)
SaveRecipe ==
    /\ pc = "recipe"
    /\ \E io \in {"ok", "open", "write"} :
          LET r == save_recipe(recipe.file, config, io)
          IN  recipe' = [recipe EXCEPT !.file = r.file,
                                       !.saved = r.returned,
                                       !.origin = CASE io = "ok" -> "saved"
                                                    [] io = "open" -> @
                                                    [] io = "write" -> "partial",
                                       !.root = IF io = "open" THEN @ ELSE J_Null,
                                       !.at = "saved",
                                       !.returned = ReturnNone]
    /\ UNCHANGED <<html, config, pc, all_data, all_src, df, result, response, panel, thread,
                   scraper>>

\* RecipeManager.load_recipe(file_path)
LoadRecipe ==
    /\ pc = "recipe"
    /\ recipe' = [recipe EXCEPT !.returned = load_recipe(recipe.file), !.at = "loaded"]
    /\ UNCHANGED <<html, config, pc, all_data, all_src, df, result, response, panel, thread,
                   scraper>>

InitRecipe ==
    /\ pc = "recipe"
    /\ html = <<>>
    /\ all_data = <<>>
    /\ all_src = <<>>
    /\ df = EmptyDataFrame
    /\ result = NoResult
    /\ response = NoResponse
    /\ panel = NewPanel
    /\ thread = NoThread
    /\ scraper = NoScraper
    /\ config \in RecipeConfigs
    /\ \E f \in RecipeFiles :
          recipe = [NoRecipe EXCEPT !.file = f.file, !.origin = f.origin, !.root = f.root]

NextRecipe == SaveRecipe \/ LoadRecipe

SpecRecipe == InitRecipe /\ [][NextRecipe]_vars

----------------------------------------------------------------------------
(* The panel in use: the page of the webview, the buttons, the threads.    *)

MaxThreads == 2    \* ScrapeThreads started by one panel

\* the recipes the user may choose: none that loads, the Configuration
\* {tables: true}, a wrapped recipe that enables the links
PanelRecipes ==
    { NoFile,
      FileOf(Dumps(ConfigToJson(TablesOnly), 0)),
      FileOf(WrappedText) }

\* what RecipeManager.load_recipe returns for each of them
PanelLoaded == { load_recipe(file) : file \in PanelRecipes }

\* the page of the webview: an empty document, a paragraph
PanelPages == { <<>>, << Elem("p", S_Apple) >> }

\* a request that fails, an empty list, a list of one object
PanelResponses ==
    { [transport |-> "failed", status |-> 0, valid |-> FALSE, raises |-> "none",
       json |-> J_Int(0)],
      [transport |-> "ok", status |-> 200, valid |-> TRUE, raises |-> "none",
       json |-> J_List(<<>>)],
      [transport |-> "ok", status |-> 200, valid |-> TRUE, raises |-> "none",
       json |-> J_List(<< RowApple >>)] }

\* main_window.toggle_scrape_panel: set_webview(webview)
SetWebview ==
    /\ pc = "panel"
    /\ ~panel.webview
    /\ panel' = [panel EXCEPT !.webview = TRUE]
    /\ UNCHANGED <<html, config, pc, all_data, all_src, df, result, response, thread,
                   scraper, recipe>>

\* the Start Scraping button, which answers only while it is enabled
ClickStartScraping ==
    /\ pc = "panel"
    /\ panel.btn_scrape
    /\ Len(panel.threads) < MaxThreads
    /\ panel' = start_scraping(panel, config)
    /\ UNCHANGED <<html, config, pc, all_data, all_src, df, result, response, thread,
                   scraper, recipe>>

\* the Load Recipe button: a file is chosen and the question is answered
ClickLoadRecipe ==
    /\ pc = "panel"
    /\ Len(panel.threads) < MaxThreads
    /\ \E loaded \in PanelLoaded, reply \in {"Yes", "No"} :
          \E after \in { ScrapePanel_load_recipe(panel, config, loaded, reply) } :
              /\ panel' = after.panel
              /\ config' = after.config
    /\ UNCHANGED <<html, pc, all_data, all_src, df, result, response, thread, scraper,
                   recipe>>

\* a running thread ends with finished, and the panel handles the signal
ScrapingFinished ==
    /\ pc = "panel"
    /\ \E t \in DOMAIN panel.threads, delivered \in BOOLEAN :
          /\ panel.threads[t].at = "running"
          /\ \E sig \in { FinalSignal(panel.threads[t].config, html, delivered) } :
                /\ sig.name = "finished"
                /\ panel' = scraping_finished(panel, t, sig.df)
    /\ UNCHANGED <<html, config, pc, all_data, all_src, df, result, response, thread,
                   scraper, recipe>>

\* a running thread ends with error, and the panel handles the signal
ScrapingError ==
    /\ pc = "panel"
    /\ \E t \in DOMAIN panel.threads, delivered \in BOOLEAN :
          /\ panel.threads[t].at = "running"
          /\ \E sig \in { FinalSignal(panel.threads[t].config, html, delivered) } :
                /\ sig.name = "error"
                /\ panel' = scraping_error(panel, t, sig.msg)
    /\ UNCHANGED <<html, config, pc, all_data, all_src, df, result, response, thread,
                   scraper, recipe>>

\* an item of the API list is chosen: ScrapePanel.fetch_api_data
FetchApiItem ==
    /\ pc = "panel"
    /\ \E r \in PanelResponses :
          LET fetched == fetch_api_data(r)
              kind    == IF fetched.exc # "none" THEN "fetch error"
                         ELSE IF IsEmpty(fetched.df) THEN "fetch empty" ELSE "fetched"
          IN  panel' = [PanelAfterFetch(panel, fetched) EXCEPT !.last = kind]
    /\ UNCHANGED <<html, config, pc, all_data, all_src, df, result, response, thread,
                   scraper, recipe>>

\* an export button, which answers only while it is enabled
ClickExport ==
    /\ pc = "panel"
    /\ panel.export_enabled
    /\ \E written \in BOOLEAN : panel' = export_data(panel, written)
    /\ UNCHANGED <<html, config, pc, all_data, all_src, df, result, response, thread,
                   scraper, recipe>>

InitPanel ==
    /\ pc = "panel"
    /\ all_data = <<>>
    /\ all_src = <<>>
    /\ df = EmptyDataFrame
    /\ result = NoResult
    /\ response = NoResponse
    /\ thread = NoThread
    /\ scraper = NoScraper
    /\ recipe = NoRecipe
    /\ panel = NewPanel
    /\ html \in PanelPages
    /\ config \in ThreadConfigs

NextPanel ==
    \/ SetWebview \/ ClickStartScraping \/ ClickLoadRecipe \/ ScrapingFinished
    \/ ScrapingError \/ FetchApiItem \/ ClickExport

SpecPanel == InitPanel /\ [][NextPanel]_vars

----------------------------------------------------------------------------
(* Vocabulary of the properties *)

Done == pc = "done"

Flag(key) == ConfigGet(config, key, FALSE)

\* the sub-extraction an element belongs to, and the tag it gives its records
GroupOf(node) ==
    CASE node.tag = "table" -> T_table
      [] node.tag = "a"     -> T_link
      [] node.tag = "img"   -> T_image
      [] OTHER              -> T_text

GroupRank(node) ==
    CASE node.tag = "table" -> 0
      [] node.tag = "a"     -> 2
      [] node.tag = "img"   -> 3
      [] OTHER              -> 1

\* the rows of a DataFrame as records: the columns a row has a value for
FrameRecord(d, i) ==
    LET cols == PositionsFrom([c \in DOMAIN d.columns |-> d.data[i][c].t # "nan"], 1)
    IN  [j \in DOMAIN cols |-> [k |-> d.columns[cols[j]], v |-> d.data[i][cols[j]]]]

FrameRecords(d) == [i \in DOMAIN d.data |-> FrameRecord(d, i)]

\* a row of a table that supplies the headers: a row of the <thead>, or a
\* first row whose <th> cells were taken as the headers
IsHeaderRow(table, r) ==
    \/ table.thead >= 0 /\ r <= table.thead
    \/ table.thead = -1 /\ r = 1 /\ \E c \in DOMAIN table.rows[1] : table.rows[1][c].tag = "th"

\* the data rows of a table: the rows with cells that are not header rows
DataRows(table) == { r \in DOMAIN table.rows : table.rows[r] # <<>> /\ ~IsHeaderRow(table, r) }

\* the rows of a table that have cells
CellRows(table) == { r \in DOMAIN table.rows : table.rows[r] # <<>> }

----------------------------------------------------------------------------
(* C1 *)

C1_Config == config = TablesOnly /\ html = ExampleHtml

\* C1: for the table <tr><th>Name</th><th>Age</th></tr><tr><td>Al</td><td>30</td></tr>
\* and the Configuration {tables: true}, scrape returns exactly one row,
\* {type: "table", table_index: 0, row_index: 1, Name: "Al", Age: "30"}: the
\* header row is not emitted as a record.
C1_HeaderRowNotEmitted ==
    (Done /\ C1_Config) =>
        /\ result.exc = "none"
        /\ FrameRecords(result.df) =
              << << [k |-> K_type,        v |-> V_Str(T_table)],
                    [k |-> K_table_index, v |-> V_Int(0)],
                    [k |-> K_row_index,   v |-> V_Int(1)],
                    [k |-> S_Name,        v |-> V_Str(S_Al)],
                    [k |-> S_Age,         v |-> V_Str(S_30)] >> >>

----------------------------------------------------------------------------
(* C2 *)

\* C2: every record carries in `type` the tag of the sub-extraction that
\* produced it (table, text, link or image), and its table_index and
\* row_index are the positions the extraction assigned, whatever the text of
\* the header cells.
C2_TypeTagPreserved ==
    Done =>
        \A i \in DOMAIN all_data :
            /\ DictGet(all_data[i], K_type) = V_Str(GroupOf(html[all_src[i]]))
            /\ html[all_src[i]].tag = "table" =>
                  /\ DictGet(all_data[i], K_table_index).t = "int"
                  /\ DictGet(all_data[i], K_row_index).t = "int"

----------------------------------------------------------------------------
(* C7 *)

\* C7: table extraction yields one record per data row, R records tagged
\* type = "table" for R data rows in all; their table_index values lie in
\* 0..N-1 in document order of the N tables, and row_index counts from 0
\* within each table.
C7_OneRecordPerDataRow ==
    (Done /\ Flag("tables")) =>
        LET tabs == find_all(html, "table")
            recs == { i \in DOMAIN all_data : DictGet(all_data[i], K_type) = V_Str(T_table) }
            R    == SumOver([t \in DOMAIN tabs |-> Cardinality(DataRows(html[tabs[t]]))], Len(tabs))
        IN  /\ Cardinality(recs) = R
            /\ \A i \in recs :
                  /\ DictGet(all_data[i], K_table_index).n \in 0..(Len(tabs) - 1)
                  /\ DictGet(all_data[i], K_row_index).n \in
                        0..(Len(html[tabs[DictGet(all_data[i], K_table_index).n + 1]].rows) - 1)
            /\ \A i, j \in recs :
                  i < j => \/ DictGet(all_data[i], K_table_index).n < DictGet(all_data[j], K_table_index).n
                           \/ /\ DictGet(all_data[i], K_table_index).n = DictGet(all_data[j], K_table_index).n
                              /\ DictGet(all_data[i], K_row_index).n < DictGet(all_data[j], K_row_index).n

----------------------------------------------------------------------------
(* C9 *)

\* the headers the specification gives a table: the cells of the <thead>
\* when there is one, else the <th> cells of the first row, else none
C9_Headers(table) ==
    IF table.thead # -1
    THEN LET inside == CellsOfRows(table.rows, table.thead)
         IN  [i \in DOMAIN inside |-> Strip(inside[i].text)]
    ELSE IF Len(table.rows) >= 1
         THEN LET ths == SelectSeq(table.rows[1], IsTh)
              IN  [i \in DOMAIN ths |-> Strip(ths[i].text)]
         ELSE <<>>

\* the column of the cell at position i (0-based): header i, or column_i
C9_Name(headers, i) ==
    IF i < Len(headers) THEN headers[i + 1] ELSE K_column_ \o IntToStr(i)

\* the place in all_data of the record of row r of the t-th table
C9_Position(tabs, t, r) ==
    SumOver([u \in DOMAIN tabs |->
                IF u < t THEN Cardinality(CellRows(html[tabs[u]])) ELSE 0], Len(tabs))
    + Cardinality({ q \in CellRows(html[tabs[t]]) : q <= r })

\* C9: the headers of a table are the cells of its <thead> when it has one,
\* else the <th> cells of its first row, else none; the record of a row has,
\* besides type, table_index and row_index, exactly the columns its cells
\* resolve to (header i for the cell at position i, column_i when there is no
\* header i), and the cell's text is what was stored under that column (the
\* last cell stored under a column is the one the record shows).
C9_HeaderResolution ==
    (Done /\ Flag("tables")) =>
        LET tabs == find_all(html, "table")
        IN  \A t \in DOMAIN tabs :
              LET table   == html[tabs[t]]
                  headers == C9_Headers(table)
              IN  \A r \in CellRows(table) :
                    LET cells == table.rows[r]
                        rec   == all_data[C9_Position(tabs, t, r)]
                        Name(i) == C9_Name(headers, i - 1)
                    IN  /\ all_src[C9_Position(tabs, t, r)] = tabs[t]
                        /\ { rec[x].k : x \in DOMAIN rec } =
                              {K_type, K_table_index, K_row_index}
                              \cup { Name(i) : i \in DOMAIN cells }
                        /\ \A i \in DOMAIN cells :
                              LET last == CHOOSE j \in DOMAIN cells :
                                              /\ Name(j) = Name(i)
                                              /\ \A m \in DOMAIN cells : Name(m) = Name(i) => m <= j
                              IN  DictGet(rec, Name(i)) = V_Str(Strip(cells[last].text))

\* a table with a <thead> of one header and a row of two cells has been
\* extracted: the first cell went under the header, the second under column_1
C9_Witness ==
    /\ Done /\ Flag("tables")
    /\ \E n \in DOMAIN html :
          /\ html[n].tag = "table"
          /\ html[n].thead = 1
          /\ Len(html[n].rows) = 2
          /\ Len(html[n].rows[1]) = 1
          /\ Len(html[n].rows[2]) = 2
    /\ \E i \in DOMAIN all_data : DictHas(all_data[i], K_column_ \o <<"1">>)

----------------------------------------------------------------------------
(* C6 *)

\* the place of an element's tag among the loops of extract_text
TagRank(node) ==
    CASE node.tag = "h1"  -> 1
      [] node.tag = "h2"  -> 2
      [] node.tag = "h3"  -> 3
      [] node.tag = "h4"  -> 4
      [] node.tag = "h5"  -> 5
      [] node.tag = "h6"  -> 6
      [] node.tag = "div" -> 7
      [] OTHER            -> 0

\* C6 as stated: the records come in the order tables, text, links, images,
\* and the records of one group - the text group of <p>, <h1>-<h6> and <div>
\* included - follow the document order of their elements.
C6_DocumentOrderInEveryGroup ==
    Done =>
        \A i, j \in DOMAIN all_data :
            i < j =>
                LET a == html[all_src[i]]
                    b == html[all_src[j]]
                IN  \/ GroupRank(a) < GroupRank(b)
                    \/ GroupRank(a) = GroupRank(b) /\ all_src[i] <= all_src[j]

\* C6, amended: the records come in the order tables, text, links, images;
\* table, link and image records follow the document order of their
\* elements; text records come tag by tag - all <p>, then <h1>, ..., <h6>,
\* then <div> - and follow the document order within one tag.
C6_GroupThenTagThenDocumentOrder ==
    Done =>
        /\ Len(all_src) = Len(all_data)
        /\ Len(df.data) = Len(all_data)
        /\ \A i, j \in DOMAIN all_data :
            i < j =>
                LET a == html[all_src[i]]
                    b == html[all_src[j]]
                IN  \/ GroupRank(a) < GroupRank(b)
                    \/ GroupRank(a) = GroupRank(b) /\ TagRank(a) < TagRank(b)
                    \/ GroupRank(a) = GroupRank(b) /\ TagRank(a) = TagRank(b)
                       /\ all_src[i] <= all_src[j]

\* a paragraph's record stands before the record of a heading that precedes
\* the paragraph in the document
C6_Witness ==
    /\ Done
    /\ \E i, j \in DOMAIN all_data :
          /\ i < j
          /\ html[all_src[i]].tag = "p"
          /\ html[all_src[j]].tag = "h1"
          /\ all_src[j] < all_src[i]

----------------------------------------------------------------------------
(* C8 *)

\* an element some enabled sub-extraction looks for
C8_Matches(node) ==
    \/ Flag("tables") /\ node.tag = "table"
    \/ Flag("text") /\ node.tag \in {"p", "h1", "h2", "h3", "h4", "h5", "h6", "div"}
    \/ Flag("links") /\ node.tag = "a" /\ "href" \in node.attrs.names
    \/ Flag("images") /\ node.tag = "img" /\ "src" \in node.attrs.names

C8_NoFlag == ~Flag("tables") /\ ~Flag("text") /\ ~Flag("links") /\ ~Flag("images")

\* C8: with tables, text, links and images all false or absent, scrape
\* returns the empty Table (no rows, no columns) and raises nothing, whatever
\* the page; so it does when no element of the page is one an enabled
\* sub-extraction looks for.
C8_EmptyTable ==
    (Done /\ (C8_NoFlag \/ \A n \in DOMAIN html : ~C8_Matches(html[n]))) =>
        /\ result.exc = "none"
        /\ result.df.data = <<>>
        /\ result.df.columns = <<>>
        /\ result.df = EmptyDataFrame

\* scrape has returned for a page with a table and a Configuration without
\* any flag key, and for a page whose only element is an anchor without href
\* while links are enabled
C8_WitnessNoFlag ==
    /\ Done /\ C8_NoFlag /\ "tables" \in config.absent
    /\ \E n \in DOMAIN html : html[n].tag = "table"
    /\ result.df = EmptyDataFrame

C8_WitnessNoMatch ==
    /\ Done /\ Flag("links") /\ Flag("tables")
    /\ Len(html) = 1 /\ html[1].tag = "a"
    /\ result.df = EmptyDataFrame

C8_Witness == C8_WitnessNoFlag \/ C8_WitnessNoMatch

----------------------------------------------------------------------------
(* C3 *)

\* keyword_filter holds nothing but commas and blanks: no keyword is left
\* after splitting on commas and trimming
C3_NoKeyword ==
    \A i \in DOMAIN config.keyword_filter : config.keyword_filter[i] \in {",", " "}

\* C3: when keyword_filter has no non-empty keyword after splitting on commas
\* and trimming, apply_filters skips the keyword filter and excludes no row:
\* it returns what it returns for an empty keyword_filter.
C3_NoKeywordSkipsFilter ==
    (Done /\ C3_NoKeyword) =>
        /\ result = apply_filters(df, [config EXCEPT !.keyword_filter = <<>>])
        /\ config.regex_filter = <<>> => result.df = df

----------------------------------------------------------------------------
(* C10 *)

\* the non-empty trimmed keywords of keyword_filter
C10_Keywords ==
    LET parts == Split(config.keyword_filter, ",")
    IN  { Strip(parts[i]) : i \in DOMAIN parts } \ { <<>> }

\* row i of the frame has a string value that contains the keyword, case ignored
C10_RowHas(d, i, kw) ==
    \E c \in DOMAIN d.columns :
        /\ d.data[i][c].t = "str"
        /\ Contains(Lower(d.data[i][c].s), Lower(kw))

C10_Example ==
    /\ all_data = << << [k |-> S_x, v |-> V_Str(S_Apple)] >>,
                     << [k |-> S_x, v |-> V_Str(S_Banana)] >> >>
    /\ config.keyword_filter = <<"a","p","p","l","e">>
    /\ config.regex_filter = <<>>

\* C10: the keyword filter keeps a row if and only if some non-empty trimmed
\* keyword is a case-insensitive substring of the value of some string-valued
\* column of that row; for the rows {x: "Apple"}, {x: "Banana"} and the
\* keyword_filter "apple" the result is exactly the first row.
C10_KeywordKeepsMatchingRows ==
    (Done /\ Strip(config.keyword_filter) # <<>> /\ config.regex_filter = <<>> /\ ~IsEmpty(df)) =>
        /\ result.exc = "none"
        /\ result.df.index =
              LET keep == [i \in DOMAIN df.data |-> \E kw \in C10_Keywords : C10_RowHas(df, i, kw)]
                  pos  == PositionsFrom(keep, 1)
              IN  [j \in DOMAIN pos |-> df.index[pos[j]]]
        /\ C10_Example => FrameRecords(result.df) = << << [k |-> S_x, v |-> V_Str(S_Apple)] >> >>

----------------------------------------------------------------------------
(* C4 *)

\* no response, or a response whose status is not 2xx
C4_NotFetched ==
    response.transport = "failed" \/ response.status < 200 \/ response.status > 299

\* a response of status 2xx whose body is not valid JSON
C4_NotJson == ~C4_NotFetched /\ ~response.valid

\* C4: fetch_api_data raises the fetch failure for a transport failure or a
\* status that is not 2xx, and the decode failure for a fetched body that is
\* not valid JSON; the two are different failures and neither returns a
\* DataFrame.
C4_FetchAndDecodeFailuresDiffer ==
    Done =>
        /\ C4_NotFetched => result.exc = FailedToFetch
        /\ C4_NotJson => result.exc = NotValidJson
        /\ FailedToFetch # NotValidJson

----------------------------------------------------------------------------
(* C5 *)

\* what the Filter Stage makes of the DataFrame of the body, under the
\* Configuration of the widgets
C5_Narrowed == filter_stage(json_to_dataframe(response.json).df, config)

\* C5: the DataFrame fetch_api_data returns for an API URL, and the one the
\* panel keeps for preview and export, is the DataFrame of the body narrowed
\* by the keyword filter, the regex filter and the duplicate removal of the
\* Configuration, as the DataFrame of the HTML path is.
C5_ApiPathIsFiltered ==
    (Done /\ result.exc = "none" /\ ~IsEmpty(json_to_dataframe(response.json).df)
          /\ C5_Narrowed.exc = "none") =>
        /\ result.df = C5_Narrowed.df
        /\ panel.has_df => panel.current_df = C5_Narrowed.df

----------------------------------------------------------------------------
(* C11 *)

C11_BothConfigured ==
    /\ Strip(config.keyword_filter) # <<>>
    /\ Strip(config.regex_filter) # <<>>
    /\ ~RegexError(Strip(config.regex_filter))

\* the index labels apply_filters keeps of df under the Configuration cfg
C11_Kept(cfg) ==
    LET r == apply_filters(df, cfg)
    IN  { r.df.index[j] : j \in DOMAIN r.df.index }

\* C11: with a keyword_filter and a valid regex_filter, apply_filters returns
\* normally, and the rows it returns are the rows of df, in their order, that
\* the keyword filter alone keeps and the regex filter alone keeps.
C11_FiltersIntersect ==
    (Done /\ C11_BothConfigured /\ ~IsEmpty(df)) =>
        /\ result.exc = "none"
        /\ result.df =
              LET both == C11_Kept([config EXCEPT !.regex_filter = <<>>])
                          \cap C11_Kept([config EXCEPT !.keyword_filter = <<>>])
                  keep == [i \in DOMAIN df.data |-> df.index[i] \in both]
              IN  TakeRows(df, PositionsFrom(keep, 1))

----------------------------------------------------------------------------
(* C12 *)

C12_InvalidPattern ==
    /\ Strip(config.regex_filter) # <<>>
    /\ RegexError(Strip(config.regex_filter))

----------------------------------------------------------------------------
(* C13 *)

\* row i of the frame has a string value the pattern is found in, case ignored
C13_RowMatches(d, i, pattern) ==
    \E c \in DOMAIN d.columns :
        /\ d.data[i][c].t = "str"
        /\ RegexSearch(pattern, d.data[i][c].s)

C13_Example ==
    /\ all_data = << << [k |-> S_x, v |-> V_Str(S_Apple)] >>,
                     << [k |-> S_x, v |-> V_Str(S_Banana)] >> >>
    /\ config.regex_filter = <<"^", "B">>

\* C13: with a valid regex_filter and no keyword_filter, apply_filters keeps
\* a row if and only if the pattern is found, case ignored, in the value of a
\* string-valued column of the row; for the rows {x: "Apple"}, {x: "Banana"}
\* and the pattern ^B the result is the Banana row.
C13_RegexKeepsMatchingRows ==
    (Done /\ Strip(config.keyword_filter) = <<>> /\ Strip(config.regex_filter) # <<>>
          /\ ~RegexError(Strip(config.regex_filter)) /\ ~IsEmpty(df)) =>
        /\ result.exc = "none"
        /\ result.df =
              LET keep == [i \in DOMAIN df.data |->
                              C13_RowMatches(df, i, Strip(config.regex_filter))]
              IN  TakeRows(df, PositionsFrom(keep, 1))
        /\ C13_Example => FrameRecords(result.df) = << << [k |-> S_x, v |-> V_Str(S_Banana)] >> >>

----------------------------------------------------------------------------
(* C14 *)

C14_NoFilter ==
    /\ Strip(config.keyword_filter) = <<>>
    /\ config.regex_filter = <<>>

\* C14: with an empty or blank keyword_filter and an empty regex_filter
\* apply_filters returns its DataFrame as it got it, rows, columns and index;
\* an empty DataFrame is returned as it is under every Configuration.
C14_EmptyFiltersAreIdentity ==
    Done =>
        /\ C14_NoFilter => result = Returned(df)
        /\ IsEmpty(df) => result = Returned(df)

\* a blank keyword_filter and a DataFrame of two rows
C14_Witness ==
    /\ Done /\ C14_NoFilter
    /\ config.keyword_filter # <<>>
    /\ Len(df.data) = 2
    /\ result.df = df

----------------------------------------------------------------------------
(* C15 *)

\* row i of the frame equals an earlier row on every column
C15_Repeats(d, i) == \E j \in 1..(i - 1) : d.data[j] = d.data[i]

\* the frame without the rows that repeat an earlier row
C15_FirstOccurrences(d) ==
    TakeRows(d, PositionsFrom([i \in DOMAIN d.data |-> ~C15_Repeats(d, i)], 1))

\* C15: with remove_duplicates set, scrape returns the rows apply_filters
\* returns without those that equal an earlier row on every column, the rows
\* kept in their order; removing duplicates from the result again changes
\* nothing.
C15_DuplicatesRemovedAfterFilters ==
    (Done /\ Flag("remove_duplicates") /\ all_data # <<>>) =>
        LET filtered == apply_filters(df, config)
        IN  filtered.exc = "none" =>
                /\ result.exc = "none"
                /\ result.df = C15_FirstOccurrences(filtered.df)
                /\ drop_duplicates(result.df) = result.df

\* a scrape whose duplicate removal took a row away
C15_Witness ==
    /\ Done /\ Flag("remove_duplicates")
    /\ result.exc = "none"
    /\ result.df.data # <<>>
    /\ Len(result.df.data) < Len(apply_filters(df, config).df.data)

----------------------------------------------------------------------------
(* C16 *)

\* the exchange gave a body that is valid JSON: fetch_api_data reaches
\* json_to_dataframe
Converted ==
    /\ Done
    /\ response.transport = "ok" /\ ~RaisesForStatus(response.status)
    /\ response.valid

\* the object v has the key with a list value
C16_HoldsList(v, key) ==
    \E i \in DOMAIN v.items : v.items[i].k = key /\ v.items[i].v.t = "list"

\* the value of the first of results, items, data, list, records that the
\* object v has with a list value
C16_Selected(v) ==
    LET key == IF C16_HoldsList(v, <<"r","e","s","u","l","t","s">>)
                  THEN <<"r","e","s","u","l","t","s">>
               ELSE IF C16_HoldsList(v, <<"i","t","e","m","s">>) THEN <<"i","t","e","m","s">>
               ELSE IF C16_HoldsList(v, <<"d","a","t","a">>) THEN <<"d","a","t","a">>
               ELSE IF C16_HoldsList(v, <<"l","i","s","t">>) THEN <<"l","i","s","t">>
               ELSE <<"r","e","c","o","r","d","s">>
    IN  v.items[CHOOSE i \in DOMAIN v.items : v.items[i].k = key].v

C16_IsEnvelope(v) ==
    /\ v.t = "dict"
    /\ \E i \in DOMAIN v.items :
          /\ v.items[i].v.t = "list"
          /\ v.items[i].k \in { <<"r","e","s","u","l","t","s">>, <<"i","t","e","m","s">>,
                                <<"d","a","t","a">>, <<"l","i","s","t">>,
                                <<"r","e","c","o","r","d","s">> }

\* C16: for an object, json_to_dataframe returns what it returns for the
\* value of the first of results, items, data, list, records that the object
\* has with a list value, whatever the order of the keys in the object;
\* {"results": [{"a": 1}, {"a": 2}]} gives the rows {a: 1}, {a: 2}.
C16_EnvelopePriority ==
    (Converted /\ C16_IsEnvelope(response.json)) =>
        /\ json_to_dataframe(response.json) = json_to_dataframe(C16_Selected(response.json))
        /\ result.exc = "none" => result.df = json_to_dataframe(C16_Selected(response.json)).df
        /\ response.json = J_Dict(<< [k |-> S_results, v |-> J_List(<< RowA(1), RowA(2) >>)] >>)
              => FrameRecords(result.df) = << << [k |-> S_a, v |-> V_Int(1)] >>,
                                             << [k |-> S_a, v |-> V_Int(2)] >> >>

\* an object that holds data before results, both lists: results is taken
C16_Witness ==
    /\ Converted
    /\ response.json = J_Dict(<< [k |-> S_data, v |-> J_List(<< RowApple >>)],
                                 [k |-> S_results, v |-> J_List(<< RowBanana >>)] >>)
    /\ FrameRecords(result.df) = << << [k |-> S_x, v |-> V_Str(S_Banana)] >> >>

----------------------------------------------------------------------------
(* C17 *)

\* the keys of the objects among the elements
C17_Keys(items) ==
    UNION { { items[i].items[j].k : j \in DOMAIN items[i].items } :
              i \in { n \in DOMAIN items : items[n].t = "dict" } }

\* C17: for a list, json_to_dataframe returns one row for each element: when
\* the first element is an object the columns are the keys of the elements
\* and row i shows element i; otherwise the only column is value and row i
\* holds element i.  [1, 2, 3] gives three rows with value 1, 2, 3.
C17_OneRowPerElement ==
    (Converted /\ response.json.t = "list") =>
        LET items == response.json.items
        IN  /\ result.exc = "none"
            /\ Len(result.df.data) = Len(items)
            /\ IF items # <<>> /\ items[1].t = "dict"
               THEN /\ { result.df.columns[c] : c \in DOMAIN result.df.columns } = C17_Keys(items)
                    /\ \A i \in DOMAIN items :
                          items[i].t = "dict" =>
                              FrameRecord(result.df, i) = RecordOf(items[i])
               ELSE /\ result.df.columns = << K_value >>
                    /\ \A i \in DOMAIN items : result.df.data[i] = << CellOf(items[i]) >>
            /\ items = << J_Int(1), J_Int(2), J_Int(3) >>
                  => result.df.data = << <<V_Int(1)>>, <<V_Int(2)>>, <<V_Int(3)>> >>

----------------------------------------------------------------------------
(* C18 *)

\* the keys of a path joined with _
RECURSIVE C18_Join(_)
C18_Join(path) ==
    IF Len(path) = 1 THEN path[1]
    ELSE C18_Join(SubSeq(path, 1, Len(path) - 1)) \o <<"_">> \o path[Len(path)]

\* the leaves of the object v, reached by path: the joined key path of each
\* value that is not an object, with the cell that shows it
RECURSIVE C18_Leaves(_, _)
C18_Leaves(v, path) ==
    UNION { LET here == Append(path, v.items[i].k)
                val  == v.items[i].v
            IN  IF val.t = "dict" THEN C18_Leaves(val, here)
                ELSE { [k |-> C18_Join(here),
                        v |-> IF val.t = "list" THEN V_Str(PyRepr(val)) ELSE CellOf(val)] }
            : i \in DOMAIN v.items }

\* C18: for an object that holds no list under results, items, data, list or
\* records, json_to_dataframe returns one row; its columns are the key paths
\* of the leaves of the object joined with _, nested objects followed at any
\* depth, and a nested list is shown as its string.  {"a": {"b": 1}} gives
\* the row {a_b: 1}.
C18_FlattenedToOneRow ==
    (Converted /\ response.json.t = "dict" /\ ~C16_IsEnvelope(response.json)) =>
        LET leaves == C18_Leaves(response.json, <<>>)
            d      == json_to_dataframe(response.json).df
        IN  /\ json_to_dataframe(response.json).exc = "none"
            /\ Len(d.data) = 1
            /\ { d.columns[c] : c \in DOMAIN d.columns } = { l.k : l \in leaves }
            /\ \A c \in DOMAIN d.columns : [k |-> d.columns[c], v |-> d.data[1][c]] \in leaves
            /\ response.json = J_Dict(<< [k |-> S_a, v |-> J_Dict(<< [k |-> S_b, v |-> J_Int(1)] >>)] >>)
                  => FrameRecords(d) = << << [k |-> <<"a", "_", "b">>, v |-> V_Int(1)] >> >>

----------------------------------------------------------------------------
(* C19 *)

\* the values directly inside a list or an object
C19_Children(v) ==
    IF v.t = "list" THEN { v.items[i] : i \in DOMAIN v.items }
    ELSE IF v.t = "dict" THEN { v.items[i].v : i \in DOMAIN v.items }
    ELSE {}

\* the strict sub-structures of a value
RECURSIVE C19_Within(_)
C19_Within(v) == C19_Children(v) \cup UNION { C19_Within(c) : c \in C19_Children(v) }

C19_Max(S) == IF S = {} THEN 0 ELSE CHOOSE n \in S : \A m \in S : m <= n

\* the nesting depth of a value: 0 for a number or a string
RECURSIVE C19_Depth(_)
C19_Depth(v) ==
    IF v.t \in {"list", "dict"}
    THEN 1 + C19_Max({ C19_Depth(c) : c \in C19_Children(v) })
    ELSE 0

\* the nested calls flatten_dict makes below the call on the object d
RECURSIVE C19_FlattenCalls(_)
C19_FlattenCalls(d) ==
    C19_Max({ 1 + C19_FlattenCalls(c) : c \in { x \in C19_Children(d) : x.t = "dict" } })

\* the nested calls json_to_dataframe and flatten_dict make below the call on v
RECURSIVE C19_NestedCalls(_)
C19_NestedCalls(v) ==
    IF v.t = "dict"
    THEN IF SelectedKey(v) # 0 THEN 1 + C19_NestedCalls(EnvelopeArg(v))
         ELSE 1 + C19_FlattenCalls(v)
    ELSE 0

\* C19: json_to_dataframe returns or raises for the body; at every object it
\* can be called on, the value it calls itself on is a strict sub-structure
\* of the object, as the nested objects flatten_dict calls itself on are; the
\* nested calls are at most as many as the body is deep.
C19_CallsDescend ==
    Converted =>
        /\ json_to_dataframe(response.json).exc \in {"none", "AttributeError"}
        /\ \A u \in {response.json} \cup C19_Within(response.json) :
              (u.t = "dict" /\ SelectedKey(u) # 0) =>
                  /\ EnvelopeArg(u) \in C19_Within(u)
                  /\ C19_Depth(EnvelopeArg(u)) < C19_Depth(u)
        /\ C19_NestedCalls(response.json) <= C19_Depth(response.json)

\* a body three objects deep, flattened by two nested calls of flatten_dict
C19_Witness ==
    /\ Converted
    /\ C19_Depth(response.json) = 4
    /\ C19_NestedCalls(response.json) = 3
    /\ result.exc = "none"

----------------------------------------------------------------------------
(* C20 *)

C20_Emitted(name) == { i \in DOMAIN thread.signals : thread.signals[i].name = name }

C20_TimeoutReported ==
    \E i \in C20_Emitted("error") : thread.signals[i].msg = TimeoutMessage

\* the extractor ran only on delivered HTML; a reported timeout went with no
\* scrape and no finished, after the whole wait; run ends with one outcome
C20_Outcome ==
    /\ thread.scraped => thread.has_html /\ thread.callback = "delivered"
    /\ C20_Emitted("finished") # {} => thread.scraped
    /\ C20_TimeoutReported =>
          /\ ~thread.scraped
          /\ C20_Emitted("finished") = {}
          /\ thread.polls = timeout * PollsPerSecond + 1
    /\ thread.polls <= timeout * PollsPerSecond + 1
    /\ thread.at = "done" => Cardinality(C20_Emitted("finished") \cup C20_Emitted("error")) = 1

\* run finds html_content[0] None after the wait and reports the timeout; a
\* callback after run changes neither the signals nor whether scrape was called
C20_Step ==
    /\ (thread.at = "waited" /\ ~thread.has_html /\ thread'.at = "done")
          => /\ thread'.signals = Append(thread.signals,
                                         Signal("error", TimeoutMessage, EmptyDataFrame))
             /\ ~thread'.scraped
    /\ thread.at = "done"
          => /\ thread'.at = "done"
             /\ thread'.signals = thread.signals
             /\ thread'.scraped = thread.scraped

\* C20: ScrapeThread.run calls scrape only on HTML the toHtml callback has
\* delivered.  When run finds none after its bounded wait it emits the error
\* "Timeout waiting for HTML content", calls no scrape and emits no finished;
\* a callback that arrives after that changes nothing of what was reported.
C20_ScrapeOnlyAfterHtml == []C20_Outcome /\ [][C20_Step]_vars

\* the timeout was reported and the callback arrived after it
C20_Witness ==
    /\ thread.at = "done"
    /\ C20_TimeoutReported
    /\ thread.callback = "delivered"

----------------------------------------------------------------------------
(* C21 *)

C21_Final == { i \in DOMAIN thread.signals : thread.signals[i].name \in {"finished", "error"} }

\* while run is on its way no final signal is out; when it has ended exactly one is,
\* it is the last signal, what precedes it is progress, and an error carries
\* the text of the exception
C21_Outcome ==
    /\ thread.at # "done" => C21_Final = {}
    /\ thread.at = "done" =>
          /\ C21_Final = { Len(thread.signals) }
          /\ \A i \in 1..(Len(thread.signals) - 1) : thread.signals[i].name = "progress"
    /\ \A i \in C21_Final :
          thread.signals[i].name = "error" =>
              thread.signals[i].msg \in {TimeoutMessage, "IndexingError", "AttributeError", "KeyError"}

\* C21: every execution of ScrapeThread.run ends, and ends having emitted
\* exactly one of finished and error; a failure of the retrieval or of the
\* extraction becomes an error signal with the message of the exception, and
\* progress is emitted only before that final signal.
C21_OneFinalSignal == []C21_Outcome /\ <>(thread.at = "done")

\* an extraction that raised, reported as an error after two progress messages
C21_Witness ==
    /\ thread.at = "done"
    /\ thread.scraped
    /\ Len(thread.signals) = 3
    /\ thread.signals[3].name = "error"
    /\ thread.signals[3].msg = "IndexingError"
    /\ thread.signals[1].name = "progress"
    /\ thread.signals[2].name = "progress"

----------------------------------------------------------------------------
(* C28 *)

\* the row of the frame a row of the result came from
C28_RowOf(j) == CHOOSE i \in DOMAIN df.index : df.index[i] = result.df.index[j]

\* row i has a value of its own, in a searched column, that a keyword is found in
C28_KeywordInPresent(i) ==
    \E kw \in C10_Keywords : \E c \in DOMAIN df.columns :
        /\ df.dtypes[c] = "object"
        /\ df.data[i][c].t # "nan"
        /\ Contains(Upper(AsStr(df.data[i][c])), Upper(kw))

\* row i has a value of its own, in a searched column, that the pattern is found in
C28_PatternInPresent(i) ==
    \E c \in DOMAIN df.columns :
        /\ df.dtypes[c] = "object"
        /\ df.data[i][c].t # "nan"
        /\ RegexSearch(Strip(config.regex_filter), AsStr(df.data[i][c]))

\* C28: a row that apply_filters keeps was kept for a value the row has: a
\* keyword, or the pattern, was found in a cell of the row that is not a
\* missing value; the text of a missing value is never searched.
C28_MissingValueNeverSearched ==
    (Done /\ result.exc = "none" /\ ~IsEmpty(df)) =>
        \A j \in DOMAIN result.df.index :
            /\ Strip(config.keyword_filter) # <<>> => C28_KeywordInPresent(C28_RowOf(j))
            /\ (Strip(config.regex_filter) # <<>> /\ ~RegexError(Strip(config.regex_filter)))
                  => C28_PatternInPresent(C28_RowOf(j))

----------------------------------------------------------------------------
(* C29 *)

\* no header of a table of the page is the text table_index or row_index
C29_NoIndexHeader ==
    \A n \in DOMAIN html :
        html[n].tag = "table" =>
            \A h \in DOMAIN TableHeaders(html[n]) :
                TableHeaders(html[n])[h] \notin {K_table_index, K_row_index}

\* two records of one group differ in what the group counts its records by
C29_DifferWithin(group, a, b) ==
    CASE group = T_table ->
            << DictGet(a, K_table_index), DictGet(a, K_row_index) >>
                # << DictGet(b, K_table_index), DictGet(b, K_row_index) >>
      [] group = T_text ->
            << DictGet(a, K_tag), DictGet(a, K_index) >> # << DictGet(b, K_tag), DictGet(b, K_index) >>
      [] OTHER -> DictGet(a, K_index) # DictGet(b, K_index)

\* the rows of the frame are pairwise distinct
C29_RowsDistinct == \A i, j \in DOMAIN df.data : i < j => df.data[i] # df.data[j]

\* scrape returns the same with remove_duplicates true and false
C29_SameWithAndWithout ==
    scrape(html, [config EXCEPT !.remove_duplicates = TRUE, !.absent = @ \ {"remove_duplicates"}])
        = scrape(html, [config EXCEPT !.remove_duplicates = FALSE])

\* C29: on a page without a header table_index or row_index the records of
\* one scrape are pairwise distinct: table records differ in (table_index,
\* row_index), text records in (tag, index), link and image records in
\* index, records of different groups in type; so scrape returns the same
\* rows with remove_duplicates true and false.
C29_RecordsPairwiseDistinct ==
    (Done /\ C29_NoIndexHeader) =>
        /\ \A i, j \in DOMAIN all_data :
              i < j =>
                  LET ga == GroupOf(html[all_src[i]])
                      gb == GroupOf(html[all_src[j]])
                  IN  IF ga = gb
                      THEN C29_DifferWithin(ga, all_data[i], all_data[j])
                      ELSE DictGet(all_data[i], K_type) # DictGet(all_data[j], K_type)
        /\ C29_RowsDistinct
        /\ C29_SameWithAndWithout

----------------------------------------------------------------------------
(* C25 *)

\* the elements of the page with the tag and the attribute, in document order
C25_With(tag, attr) ==
    PositionsFrom([n \in DOMAIN html |-> html[n].tag = tag /\ attr \in html[n].attrs.names], 1)

\* the records of all_data that came from an element with the tag
C25_RecordsOf(tag) == { i \in DOMAIN all_data : html[all_src[i]].tag = tag }

\* the value of an attribute, or the empty string
C25_Attr(node, attr) == IF attr \in node.attrs.names THEN node.attrs[attr] ELSE <<>>

C25_Link(k, node) ==
    << [k |-> K_type,  v |-> V_Str(T_link)],
       [k |-> K_index, v |-> V_Int(k)],
       [k |-> K_text,  v |-> V_Str(Strip(node.text))],
       [k |-> K_url,   v |-> V_Str(node.attrs.href)],
       [k |-> K_title, v |-> V_Str(C25_Attr(node, "title"))] >>

C25_Image(k, node) ==
    << [k |-> K_type,  v |-> V_Str(T_image)],
       [k |-> K_index, v |-> V_Int(k)],
       [k |-> K_src,   v |-> V_Str(node.attrs.src)],
       [k |-> K_alt,   v |-> V_Str(C25_Attr(node, "alt"))],
       [k |-> K_title, v |-> V_Str(C25_Attr(node, "title"))] >>

\* C25: link extraction emits one record for each anchor that has an href and
\* none for the others; the record of the k-th such anchor in document order
\* has index k (from 0), url the href as written and title the title
\* attribute or the empty string.  Image extraction does the same for the
\* <img> elements that have a src, with src, alt and title.
C25_OneRecordPerLinkAndImage ==
    Done =>
        /\ Flag("links") =>
              LET anchors == C25_With("a", "href")
              IN  /\ Cardinality(C25_RecordsOf("a")) = Len(anchors)
                  /\ \A k \in DOMAIN anchors :
                        \E i \in C25_RecordsOf("a") :
                            /\ all_src[i] = anchors[k]
                            /\ all_data[i] = C25_Link(k - 1, html[anchors[k]])
        /\ Flag("images") =>
              LET images == C25_With("img", "src")
              IN  /\ Cardinality(C25_RecordsOf("img")) = Len(images)
                  /\ \A k \in DOMAIN images :
                        \E i \in C25_RecordsOf("img") :
                            /\ all_src[i] = images[k]
                            /\ all_data[i] = C25_Image(k - 1, html[images[k]])

\* a page whose first anchor has no href and whose second has one: one link
\* record, with index 0
C25_Witness ==
    /\ Done /\ Flag("links")
    /\ Len(html) = 2
    /\ html[1].tag = "a" /\ "href" \notin html[1].attrs.names
    /\ html[2].tag = "a" /\ "href" \in html[2].attrs.names
    /\ Cardinality(C25_RecordsOf("a")) = 1
    /\ \E i \in C25_RecordsOf("a") : DictGet(all_data[i], K_index) = V_Int(0)

----------------------------------------------------------------------------
(* C23 *)

C23_Headings == {"h1", "h2", "h3", "h4", "h5", "h6"}

\* an element text extraction owes a record to
C23_Qualifies(node) ==
    \/ node.tag \in {"p"} \cup C23_Headings /\ Strip(node.text) # <<>>
    \/ node.tag = "div" /\ Len(Strip(node.text)) > MinDivLen

\* the records of all_data that the element at place n gave
C23_RecordsFrom(n) == { i \in DOMAIN all_data : all_src[i] = n }

----------------------------------------------------------------------------
(* C24 *)

\* the text records of all_data
C24_TextRecords ==
    { i \in DOMAIN all_data : html[all_src[i]].tag \in {"p", "div"} \cup C23_Headings }

\* the counter the specification gives an element: paragraphs, headings, divs
C24_GroupOfTag(tag) ==
    CASE tag = "p" -> {"p"}
      [] tag = "div" -> {"div"}
      [] OTHER -> C23_Headings

\* the elements before place n whose tag is one of the tags
C24_Before(n, tags) == Cardinality({ m \in 1..(n - 1) : html[m].tag \in tags })

\* the fields of a text record other than its index
C24_Fields(i) ==
    LET node == html[all_src[i]]
    IN  /\ DictKeys(all_data[i]) = << K_type, K_index, K_content, K_tag >>
        /\ DictGet(all_data[i], K_type) = V_Str(T_text)
        /\ DictGet(all_data[i], K_content) = V_Str(Strip(node.text))
        /\ DictGet(all_data[i], K_tag) = V_Str(TagName(node.tag))

\* C24 as stated: a text record carries type "text", the stripped text as
\* content, the tag name as tag, and an index counted from 0 by one of three
\* counters: one for the paragraphs, one for the headings <h1>-<h6> together,
\* one for the divs.
C24_ThreeCounters ==
    (Done /\ Flag("text")) =>
        \A i \in C24_TextRecords :
            /\ C24_Fields(i)
            /\ DictGet(all_data[i], K_index) =
                  V_Int(C24_Before(all_src[i], C24_GroupOfTag(html[all_src[i]].tag)))

\* C24, amended: a text record carries type "text", the stripped text as
\* content, the tag name as tag, and as index the position, from 0, of its
\* element among all the elements of the page with the same tag name, those
\* that gave no record included; p, h1, h2, h3, h4, h5, h6 and div have a
\* counter each.
C24_OneCounterPerTagName ==
    (Done /\ Flag("text")) =>
        \A i \in C24_TextRecords :
            /\ C24_Fields(i)
            /\ DictGet(all_data[i], K_index) =
                  V_Int(C24_Before(all_src[i], {html[all_src[i]].tag}))

\* <h1> then <h2>: two heading records, both with index 0
C24_Witness ==
    /\ Done /\ Flag("text")
    /\ Len(html) = 2 /\ html[1].tag = "h1" /\ html[2].tag = "h2"
    /\ \E i, j \in C24_TextRecords :
          /\ all_src[i] = 1 /\ all_src[j] = 2
          /\ DictGet(all_data[i], K_index) = V_Int(0)
          /\ DictGet(all_data[j], K_index) = V_Int(0)

----------------------------------------------------------------------------
(* C22 *)

\* C22: under every interleaving of two scrape calls, on two HTMLScraper
\* objects or on the same one, each call returns the Table it returns when
\* it runs alone on its own html and config.
C22_CallsIndependent ==
    \A c \in DOMAIN scraper.calls :
        scraper.calls[c].at = "done" =>
            scraper.calls[c].result = scrape(scraper.calls[c].html, scraper.calls[c].config)

----------------------------------------------------------------------------
(* C26 *)

\* C26: a save_recipe that returned True wrote the object {"version": "1.0",
\* "config": c}, and load_recipe of that file returns c unchanged;
\* load_recipe of a legacy document, whose root is an object without the key
\* `config`, returns the root; load_recipe of a missing file, of a file that
\* is no JSON and of a file cut short returns None.
C26_RecipeRoundTrip ==
    /\ (recipe.at = "saved" /\ recipe.saved) =>
          /\ recipe.file.exists
          /\ Loads(recipe.file.content) = Decoded(RecipeOf(config), Len(recipe.file.content) + 1)
    /\ (recipe.at = "loaded" /\ recipe.origin = "saved") =>
          recipe.returned = ReturnValue(ConfigToJson(config))
    /\ (recipe.at = "loaded" /\ recipe.origin \in {"legacy", "wrapped"}) =>
          recipe.returned = ReturnValue(recipe.root)
    /\ (recipe.at = "loaded" /\ recipe.origin \in {"missing", "garbage", "partial"}) =>
          recipe.returned = ReturnNone

\* a Configuration with a quote in its keywords and a backslash in its
\* pattern was saved and loaded back
C26_Witness ==
    /\ recipe.at = "loaded" /\ recipe.origin = "saved"
    /\ config.keyword_filter = << "a", Quote, "b" >>
    /\ config.regex_filter = << Backslash, "d" >>
    /\ ~recipe.returned.none
    /\ JsonGet(recipe.returned.v, S_regex_filter)
          = J_Str(<< Backslash, "d" >>)

----------------------------------------------------------------------------
\* C27: at most one ScrapeThread runs at any time: while a thread started by
\* start_scraping has not had its scraping_finished or scraping_error handled,
\* it is the only running thread of the panel, self.scrape_thread is that
\* thread and the scrape button is disabled; when no thread runs the button is
\* enabled.
C27_Running == { t \in DOMAIN panel.threads : panel.threads[t].at = "running" }

C27_AtMostOneThread ==
    pc = "panel" =>
       /\ Cardinality(C27_Running) <= 1
       /\ C27_Running # {} => ~panel.btn_scrape /\ C27_Running = { panel.scrape_thread }
       /\ C27_Running = {} => panel.btn_scrape

----------------------------------------------------------------------------
\* C30: an enabled export button implies that current_df holds a non-empty
\* Table. The buttons become enabled, and current_df changes, only in a step
\* that assigns a non-empty scraped or fetched Table; a scrape or a fetch that
\* ends empty or in error leaves current_df and the buttons as they were; and
\* an export writes the Table current_df held, which is not empty.
C30_EnabledImpliesTable ==
    panel.export_enabled => panel.has_df /\ ~IsEmpty(panel.current_df)

C30_Step ==
    /\ \/ panel'.current_df # panel.current_df
       \/ panel'.export_enabled # panel.export_enabled
       \/ panel'.has_df # panel.has_df
       => /\ panel'.last \in {"scraped", "fetched"}
          /\ panel'.export_enabled
          /\ panel'.has_df
          /\ ~IsEmpty(panel'.current_df)
    /\ panel'.last = "exported" =>
          /\ panel'.exported = panel.current_df
          /\ ~IsEmpty(panel'.exported)

C30_ExportedTableIsCurrent ==
    [](pc = "panel" => C30_EnabledImpliesTable) /\ [][pc = "panel" => C30_Step]_vars

\* a Table was obtained and exported, and the scrape or fetch handled last
\* ended empty or in error: the Table is still held and the buttons enabled
C30_Witness ==
    /\ pc = "panel"
    /\ panel.last \in {"scrape empty", "scrape error", "fetch empty", "fetch error"}
    /\ panel.export_enabled
    /\ panel.exported = panel.current_df
    /\ ~IsEmpty(panel.current_df)

====
